---- MODULE Spec2Model ----
(***************************************************************************)
(* A model of the Texas Hold'em engine of ophis/poker-game: the betting    *)
(* round (app/game/betting.py), the blind and dealer rules                 *)
(* (app/game/rules.py), the pot manager (app/core/pot.py) and the          *)
(* asynchronous hand driver (app/game/game.py).                            *)
(*                                                                         *)
(* One step of the driver is the code it runs between two awaits: asyncio  *)
(* runs a coroutine without interruption up to its next await, so the      *)
(* steps are atomic and the driver's position (pc) names the await it is   *)
(* suspended at.  Seat indices are 0-based, as in the source.              *)
(***************************************************************************)
EXTENDS Integers, Sequences, FiniteSets, TLC

\* ------------------------------------------------------------------------
\* Configuration of the modelled game
\* ------------------------------------------------------------------------

\* GameState.small_blind / big_blind of the modelled table.
small_blind == 1
big_blind == 2

\* BettingRound.FLHE_MAX_RAISES
FLHE_MAX_RAISES == 4

\* Number of cards of a deck: Deck.reset builds one card per (suit, rank).
DeckSize == 52

\* The buy-ins of the seats, seat 0 first (Player.chips at add_player).
StartChips == <<5, 2, 3>>

\* Bounds of the exploration.
MaxHands == 1
MaxRaiseTo == 5
NumShuffles == 1
NumScores == 2
MaxContribution == 3
MatchHands == 2

NumSeats == Len(StartChips)
SeatIdx == 0 .. (NumSeats - 1)
PidOf(i) == <<"p0", "p1", "p2", "p3">>[i + 1]
PlayerIds == {PidOf(i) : i \in SeatIdx}

Variants == {"no_limit", "fixed_limit"}
Streets == {"preflop", "flop", "turn", "river"}

NoAction == [player_id |-> "none", action |-> "none", amount |-> 0]
BettingActions == {"fold", "check", "call", "raise", "all_in"}
\* The amounts a client sends with an action: 0 and the largest target.
RaiseAmounts == {0, MaxRaiseTo}
Submissions ==
    [player_id : PlayerIds, action : BettingActions \ {"raise"}, amount : {0}]
    \cup [player_id : PlayerIds, action : {"raise"}, amount : RaiseAmounts]

Max(a, b) == IF a >= b THEN a ELSE b
Min(a, b) == IF a <= b THEN a ELSE b

RECURSIVE SumOver(_, _)
SumOver(S, f) ==
    IF S = {} THEN 0
    ELSE LET x == CHOOSE y \in S : TRUE IN f[x] + SumOver(S \ {x}, f)

VARIABLES
    \* GameState
    variant, phase, players, community_cards, pot, dealer_index,
    current_player_index, hand_number,
    \* PotManager
    contributions, all_in_amounts, total,
    \* Deck
    deck,
    \* BettingRound (the driver's _current_betting) and the last result
    betting, result,
    \* PokerGame: the pending-action slot, the action event, the driver
    pending_action, action_event, pc, current_pid,
    \* the last event the driver broadcast, and the action it reported
    last_event, last_action,
    \* the scores the showdown computed
    scores,
    \* observation only: chips + pot when the running hand began
    hand_start_total,
    \* PokerGame._players: the ids of the players of the game
    members,
    \* ConnectionManager._connections of the game: the registered subscribers
    connections,
    \* the position of each subscriber's websocket handler
    handler,
    \* what each subscriber's socket was sent: the first and the last event,
    \* and the player named in the last your_turn payload
    inbox,
    \* The run of _build_tables (app/core/hand_evaluator.py)
    section, cursor, score, flush_table, unique5_table, pairs_table, entry,
    \* the players that are bots, and the player for whom a task of
    \* _schedule_bot_action is pending ("none": no such task)
    bots, bot_task,
    \* the calls of send_json that have not returned: the socket written to
    \* and the task that writes ("driver" or a subscriber's handler)
    sending

gameVars == <<variant, phase, players, community_cards, pot, dealer_index,
              current_player_index, hand_number>>
potVars == <<contributions, all_in_amounts, total>>
vars == <<variant, phase, players, community_cards, pot, dealer_index,
          current_player_index, hand_number, contributions, all_in_amounts,
          total, deck, betting, result, pending_action, action_event, pc,
          current_pid, last_event, last_action, scores, hand_start_total,
          members, connections, handler, inbox, section, cursor, score,
          flush_table, unique5_table, pairs_table, entry, bots, bot_task,
          sending>>
netVars == <<members, connections, handler, inbox>>
evalVars == <<section, cursor, score, flush_table, unique5_table, pairs_table,
             entry>>
botVars == <<bots, bot_task>>
sinkVars == <<sending>>

\* ------------------------------------------------------------------------
\* GameState (app/game/game_state.py)
\* ------------------------------------------------------------------------

PlayerState(pid, chips) ==
    [player_id |-> pid, chips |-> chips, hole_cards |-> <<>>, bet |-> 0,
     total_bet |-> 0, is_folded |-> FALSE, is_all_in |-> FALSE,
     is_sitting_out |-> FALSE]

\* Indices of the seats still in the hand (not folded, not sitting out).
active_players(ps) ==
    {i \in DOMAIN ps : ~ps[i].is_folded /\ ~ps[i].is_sitting_out}

seated_players(ps) == {i \in DOMAIN ps : ~ps[i].is_sitting_out}

\* get_player / player_index: the seat with that id, -1 when there is none.
player_index(ps, pid) ==
    IF \E i \in DOMAIN ps : ps[i].player_id = pid
    THEN CHOOSE i \in DOMAIN ps :
            /\ ps[i].player_id = pid
            /\ \A j \in DOMAIN ps : ps[j].player_id = pid => i <= j
    ELSE -1

TotalChips(ps) == SumOver(DOMAIN ps, [i \in DOMAIN ps |-> ps[i].chips])

\* ------------------------------------------------------------------------
\* Rules (app/game/rules.py)
\* ------------------------------------------------------------------------

\* Python's list indexing: players[-1] is the last seat.
PyIndex(ps, i) == IF i < 0 THEN Cardinality(DOMAIN ps) + i ELSE i

RECURSIVE next_active_from(_, _, _)
next_active_from(ps, from_index, offset) ==
    LET n == Cardinality(DOMAIN ps) IN
    IF offset > n THEN -1
    ELSE LET idx == (from_index + offset) % n IN
         IF ~ps[idx].is_sitting_out /\ ps[idx].chips > 0 THEN idx
         ELSE next_active_from(ps, from_index, offset + 1)

\* The next seat clockwise that is not sitting out and has chips, or -1.
next_active_seat(ps, from_index) == next_active_from(ps, from_index, 1)

advance_dealer(ps, dealer) ==
    LET new_dealer == next_active_seat(ps, dealer) IN
    IF new_dealer = -1 THEN dealer ELSE new_dealer

\* A faulty variant of get_blind_indices: no heads-up rule, the small blind
\* is always the seat after the dealer.
get_blind_indices_NoHeadsUp(ps, dealer) ==
    LET sb_index == next_active_seat(ps, dealer)
    IN  <<sb_index, next_active_seat(ps, sb_index)>>

\* <<small blind index, big blind index>>
get_blind_indices(ps, dealer) ==
    LET n_active == Cardinality({i \in DOMAIN ps :
                                    ~ps[i].is_sitting_out /\ ps[i].chips > 0})
        sb_index == IF n_active = 2 THEN dealer
                    ELSE next_active_seat(ps, dealer)
        bb_index == next_active_seat(ps, sb_index)
    IN  <<sb_index, bb_index>>

\* A faulty variant of PostOneBlind: the seat is not marked all-in.
PostOneBlind_NeverAllIn(ps, idx, blind) ==
    LET amount == Min(blind, ps[idx].chips)
    IN  [ps EXCEPT ![idx].chips = @ - amount,
                   ![idx].bet = amount,
                   ![idx].total_bet = amount]

\* One blind: the seat posts min(blind, chips) and is all-in at 0 chips.
PostOneBlind(ps, idx, blind) ==
    LET amount == Min(blind, ps[idx].chips)
        chips == ps[idx].chips - amount
    IN  [ps EXCEPT ![idx].chips = chips,
                   ![idx].bet = amount,
                   ![idx].total_bet = amount,
                   ![idx].is_all_in = IF chips = 0 THEN TRUE ELSE @]

\* A faulty variant of BlindsPot: the small blind never reaches the pot.
BlindsPot_OmitsSmallBlind(pt, sb_amount, bb_amount) == pt + bb_amount

\* The pot after the blinds: state.pot += sb_amount + bb_amount.
BlindsPot(pt, sb_amount, bb_amount) == pt + sb_amount + bb_amount

post_blinds(ps, dealer, pt) ==
    LET blinds == get_blind_indices(ps, dealer)
        sb_idx == PyIndex(ps, blinds[1])
        bb_idx == PyIndex(ps, blinds[2])
        sb_amount == Min(small_blind, ps[sb_idx].chips)
        ps1 == PostOneBlind(ps, sb_idx, small_blind)
        bb_amount == Min(big_blind, ps1[bb_idx].chips)
        ps2 == PostOneBlind(ps1, bb_idx, big_blind)
    IN  [players |-> ps2, pot |-> BlindsPot(pt, sb_amount, bb_amount),
         sb_amount |-> sb_amount, bb_amount |-> bb_amount]

first_to_act_preflop(ps, dealer) ==
    next_active_seat(ps, get_blind_indices(ps, dealer)[2])

first_to_act_postflop(ps, dealer) == next_active_seat(ps, dealer)

\* ------------------------------------------------------------------------
\* PotManager (app/core/pot.py)
\* ------------------------------------------------------------------------

\* The ledger as a record of the three fields of PotManager.
EmptyDict == [x \in {} |-> 0]
EmptyLedger ==
    [contributions |-> EmptyDict, all_in_amounts |-> EmptyDict, total |-> 0]

get_contribution(c, pid) == IF pid \in DOMAIN c THEN c[pid] ELSE 0

\* dict[key] = value
DictSet(d, k, v) == [x \in DOMAIN d \cup {k} |-> IF x = k THEN v ELSE d[x]]

add_contribution(led, pid, amount, is_all_in) ==
    LET c == DictSet(led.contributions, pid,
                     get_contribution(led.contributions, pid) + amount)
    IN  [contributions |-> c,
         total |-> led.total + amount,
         all_in_amounts |-> IF is_all_in
                            THEN DictSet(led.all_in_amounts, pid, c[pid])
                            ELSE led.all_in_amounts]

\* sorted(set(values)) as a sequence in ascending order.
RECURSIVE SortedSeq(_)
SortedSeq(S) ==
    IF S = {} THEN <<>>
    ELSE LET m == CHOOSE x \in S : \A y \in S : x <= y
         IN  <<m>> \o SortedSeq(S \ {m})

\* A faulty variant of EligibleForPot: every contributor to the layer is
\* eligible, in the hand or not.
EligibleForPot_AnyContributor(pid, active_ids) == TRUE

\* Whether a contributor to a pot is put in its eligible list.
EligibleForPot(pid, active_ids) == pid \in active_ids

\* The loop over the all-in caps: one pot per cap, with already_taken
\* carried from cap to cap.
RECURSIVE CapPots(_, _, _, _, _)
CapPots(contributors, caps, k, already_taken, active_ids) ==
    IF k > Len(caps) THEN [pots |-> <<>>, already_taken |-> already_taken]
    ELSE
      LET cap == caps[k]
          part == [pid \in DOMAIN contributors |->
                      Min(contributors[pid], cap) - already_taken[pid]]
          givers == {pid \in DOMAIN contributors : part[pid] > 0}
          pot_amount == SumOver(givers, part)
          taken == [pid \in DOMAIN contributors |->
                      IF pid \in givers THEN already_taken[pid] + part[pid]
                      ELSE already_taken[pid]]
          eligible == {pid \in givers : EligibleForPot(pid, active_ids)}
          rest == CapPots(contributors, caps, k + 1, taken, active_ids)
      IN  [pots |-> (IF pot_amount > 0
                     THEN <<[amount |-> pot_amount, eligible |-> eligible,
                             cap |-> cap]>>
                     ELSE <<>>) \o rest.pots,
           already_taken |-> rest.already_taken]

\* A faulty variant of MainPot: the chips above the largest cap are dropped.
MainPot_Dropped(contributors, already_taken, active_ids) == <<>>

\* The main pot: what every contributor put in above the largest cap.
MainPot(contributors, already_taken, active_ids) ==
    LET leftover == [pid \in DOMAIN contributors |->
                        contributors[pid] - already_taken[pid]]
        givers == {pid \in DOMAIN contributors : leftover[pid] > 0}
        main_pot_amount == SumOver(givers, leftover)
    IN  IF main_pot_amount > 0
        THEN <<[amount |-> main_pot_amount,
                eligible |-> {pid \in givers : EligibleForPot(pid, active_ids)},
                cap |-> 0]>>
        ELSE <<>>

\* The side pots, smallest cap first, the uncapped main pot last.  Each pot
\* is [amount, eligible]; cap records the all-in cap the pot was made for
\* (0 for the main pot), which the source keeps only in its loop variable.
calculate_side_pots(led, active_ids) ==
    LET c == led.contributions
        ids == {pid \in DOMAIN c : c[pid] > 0}
        contributors == [pid \in ids |-> c[pid]]
        all_in_caps == SortedSeq({led.all_in_amounts[pid] :
                                     pid \in DOMAIN led.all_in_amounts})
        zero == [pid \in ids |-> 0]
        capped == CapPots(contributors, all_in_caps, 1, zero, active_ids)
    IN  IF DOMAIN c = {} \/ ids = {} THEN <<>>
        ELSE capped.pots \o MainPot(contributors, capped.already_taken, active_ids)


\* ------------------------------------------------------------------------
\* BettingRound (app/game/betting.py)
\* ------------------------------------------------------------------------

NoBetting == [active |-> FALSE, current_bet |-> 0, last_raise_size |-> 0,
              num_raises |-> 0, players_acted |-> {}, fixed_bet |-> 0]

MaxBet(ps) ==
    IF DOMAIN ps = {} THEN 0
    ELSE LET i == CHOOSE i \in DOMAIN ps :
                     \A j \in DOMAIN ps : ps[i].bet >= ps[j].bet
         IN  ps[i].bet

\* BettingRound.__init__
NewBettingRound(ps, var, ph) ==
    [active |-> TRUE,
     current_bet |-> MaxBet(ps),
     last_raise_size |-> big_blind,
     num_raises |-> 0,
     players_acted |-> {},
     fixed_bet |-> IF var = "fixed_limit"
                   THEN (IF ph \in {"preflop", "flop"} THEN big_blind
                         ELSE big_blind * 2)
                   ELSE 0]

get_valid_actions(ps, var, b, i) ==
    LET player == ps[i]
        call_amount == Min(Max(0, b.current_bet - player.bet), player.chips)
        nl == var = "no_limit"
        min_raise_total ==
            IF nl THEN b.current_bet + Max(b.last_raise_size, big_blind)
            ELSE b.current_bet + b.fixed_bet
    IN  [can_check |-> call_amount = 0,
         call_amount |-> call_amount,
         min_raise |-> min_raise_total,
         max_raise |-> IF nl THEN player.chips + player.bet
                       ELSE min_raise_total,
         can_raise |-> IF nl THEN player.chips > call_amount
                       ELSE /\ b.num_raises < FLHE_MAX_RAISES
                            /\ player.chips > call_amount,
         player_stack |-> player.chips]

\* The seat commits `amount` chips: chips, bet, total_bet, and all-in at 0.
Commit(ps, i, amount) ==
    LET chips == ps[i].chips - amount IN
    [ps EXCEPT ![i].chips = chips,
               ![i].bet = @ + amount,
               ![i].total_bet = @ + amount,
               ![i].is_all_in = IF chips = 0 THEN TRUE ELSE @]

\* A faulty variant of RaiseTarget: a RAISE below the minimum is taken as
\* asked.
RaiseTarget_NoFloor(ps, var, b, i, action, raise_amount) ==
    LET player == ps[i] IN
    IF action = "all_in" THEN player.chips + player.bet
    ELSE LET asked == IF var = "fixed_limit"
                      THEN b.current_bet + b.fixed_bet
                      ELSE raise_amount
         IN  Min(asked, player.chips + player.bet)

\* The total bet a RAISE or ALL_IN aims at.
RaiseTarget(ps, var, b, i, action, raise_amount) ==
    LET player == ps[i]
        valid == get_valid_actions(ps, var, b, i)
    IN  IF action = "all_in" THEN player.chips + player.bet
        ELSE LET asked == IF var = "fixed_limit"
                          THEN b.current_bet + b.fixed_bet
                          ELSE raise_amount
             IN  Min(Max(asked, valid.min_raise), player.chips + player.bet)

\* The round's fields after a RAISE or ALL_IN that aimed at total_bet and
\* left the seat with a street bet of new_bet.
RaiseUpdate(b, pid, total_bet, new_bet) ==
    [b EXCEPT !.last_raise_size = total_bet - b.current_bet,
              !.current_bet = new_bet,
              !.num_raises = @ + 1,
              !.players_acted = {pid}]

\* A faulty variant of advance_from: the index moves to the seat after,
\* whatever its state.
advance_from_SeatAfter(ps, idx, k) == (idx + 1) % Cardinality(DOMAIN ps)

RECURSIVE advance_from(_, _, _)
advance_from(ps, idx, k) ==
    LET n == Cardinality(DOMAIN ps) IN
    IF k > n THEN -1
    ELSE LET nxt == (idx + 1) % n IN
         IF /\ ~ps[nxt].is_folded
            /\ ~ps[nxt].is_all_in
            /\ ~ps[nxt].is_sitting_out
         THEN nxt
         ELSE advance_from(ps, nxt, k + 1)

\* _advance_current: the next seat after cpi able to act, or -1.
advance_current(ps, cpi) == advance_from(ps, cpi, 1)

\* A faulty variant of check_round_complete: the round always goes on.
check_round_complete_NeverDone(ps, b) == "continue"

check_round_complete(ps, b) ==
    LET active == active_players(ps)
        can_act == {i \in active : ~ps[i].is_all_in}
    IN  IF Cardinality(active) <= 1 THEN "all_folded"
        ELSE IF can_act = {} THEN "round_complete"
        ELSE IF \E i \in can_act :
                   \/ ps[i].player_id \notin b.players_acted
                   \/ ps[i].bet < b.current_bet
             THEN "continue"
        ELSE "round_complete"

\* Whether apply_action raises ValueError for this action.
Rejects(ps, var, b, pid, action) ==
    LET i == player_index(ps, pid) IN
    IF i = -1 THEN TRUE
    ELSE \/ /\ action = "check"
            /\ ~get_valid_actions(ps, var, b, i).can_check
         \/ /\ action = "raise"
            /\ ~get_valid_actions(ps, var, b, i).can_raise
         \/ action \notin BettingActions

\* apply_action on an action it does not reject: the new seats, pot, round
\* fields, actor index and the BettingResult.
apply_action(ps, pt, var, b, cpi, pid, action, raise_amount) ==
    LET i == player_index(ps, pid)
        valid == get_valid_actions(ps, var, b, i)
        acted == [b EXCEPT !.players_acted = @ \cup {pid}]
        total_bet == RaiseTarget(ps, var, b, i, action, raise_amount)
        chips_to_add == Min(total_bet - ps[i].bet, ps[i].chips)
        actual_amount == Min(valid.call_amount, ps[i].chips)
        ps1 == CASE action = "fold" -> [ps EXCEPT ![i].is_folded = TRUE]
                 [] action = "check" -> ps
                 [] action = "call" -> Commit(ps, i, actual_amount)
                 [] OTHER -> Commit(ps, i, chips_to_add)
        pt1 == CASE action = "call" -> pt + actual_amount
                 [] action \in {"raise", "all_in"} -> pt + chips_to_add
                 [] OTHER -> pt
        b1 == IF action \in {"raise", "all_in"}
              THEN RaiseUpdate(b, pid, total_bet, ps1[i].bet)
              ELSE acted
    IN  [players |-> ps1, pot |-> pt1, betting |-> b1,
         current_player_index |-> advance_current(ps1, cpi),
         result |-> check_round_complete(ps1, b1)]

\* next_to_act: the seat at cpi if it can act, else none (-1).
next_to_act(ps, cpi) ==
    IF cpi = -1 THEN -1
    ELSE LET p == ps[PyIndex(ps, cpi)] IN
         IF p.is_folded \/ p.is_all_in \/ p.is_sitting_out THEN -1
         ELSE PyIndex(ps, cpi)


\* ------------------------------------------------------------------------
\* Cards and the deck (app/core/card.py)
\* ------------------------------------------------------------------------

\* A card is a number 0..51 in the order Deck.reset builds the deck:
\* for suit in Suit, for rank in Rank.
Cards == 0 .. (DeckSize - 1)
RankStr == <<"2", "3", "4", "5", "6", "7", "8", "9", "10", "J", "Q", "K", "A">>
SuitStr == <<"c", "d", "h", "s">>

\* Card.__str__: rank letters then the suit letter.
CardStr(c) == RankStr[(c % 13) + 1] \o SuitStr[(c \div 13) + 1]

\* Deck.reset: a full deck in a shuffled order.  random.shuffle may produce
\* any order; the model explores NumShuffles of them.
ShuffledDeck(k) ==
    [j \in 1 .. DeckSize |-> (5 * (j - 1) + 7 * k + 3) % DeckSize]

\* Deck.deal(n): <<the cards dealt, the deck left>>
deal(d, n) == <<SubSeq(d, 1, n), SubSeq(d, n + 1, Len(d))>>

\* The two passes of _run_hand over the seats in the hand, one card each:
\* the j-th such seat (in list order) gets cards j and m + j of the deck.
DealHoleCards(ps, d) ==
    LET act == active_players(ps)
        m == Cardinality(act)
        pos(i) == Cardinality({j \in act : j <= i})
    IN  [players |-> [i \in DOMAIN ps |->
                        IF i \in act
                        THEN [ps[i] EXCEPT !.hole_cards =
                                 <<d[pos(i)], d[m + pos(i)]>>]
                        ELSE ps[i]],
         deck |-> SubSeq(d, 2 * m + 1, Len(d))]

\* ------------------------------------------------------------------------
\* State snapshots (PokerGame._state_payload_factory)
\* ------------------------------------------------------------------------

\* A faulty variant of HoleCardsShown: every hand is shown once the phase
\* is showdown.
HoleCardsShown_RevealAtShowdown(p, viewer_id, ph) ==
    IF p.player_id = viewer_id \/ ph = "showdown"
    THEN [k \in 1 .. Len(p.hole_cards) |-> CardStr(p.hole_cards[k])]
    ELSE [k \in 1 .. Len(p.hole_cards) |-> "??"]

\* The hole cards of seat p as the snapshot built for viewer_id shows them.
HoleCardsShown(p, viewer_id, ph) ==
    IF p.player_id = viewer_id
    THEN [k \in 1 .. Len(p.hole_cards) |-> CardStr(p.hole_cards[k])]
    ELSE [k \in 1 .. Len(p.hole_cards) |-> "??"]

state_payload(ps, viewer_id, ph, cc, pt, hn, di, cpi, var) ==
    [phase |-> ph,
     variant |-> var,
     players |-> [i \in DOMAIN ps |->
         [player_id |-> ps[i].player_id,
          chips |-> ps[i].chips,
          bet |-> ps[i].bet,
          total_bet |-> ps[i].total_bet,
          is_folded |-> ps[i].is_folded,
          is_all_in |-> ps[i].is_all_in,
          seat |-> i,
          is_active |-> (cpi \in DOMAIN ps /\ cpi = i),
          hole_cards |-> HoleCardsShown(ps[i], viewer_id, ph)]],
     community_cards |-> [k \in 1 .. Len(cc) |-> CardStr(cc[k])],
     pot |-> pt,
     hand_number |-> hn,
     dealer_index |-> di,
     current_player_index |-> cpi,
     small_blind |-> small_blind,
     big_blind |-> big_blind]

\* The snapshot of the current state for viewer_id (get_state_for_player).
state_payload_factory(viewer_id) ==
    state_payload(players, viewer_id, phase, community_cards, pot,
                  hand_number, dealer_index, current_player_index, variant)


\* ------------------------------------------------------------------------
\* Showdown (PokerGame._run_showdown)
\* ------------------------------------------------------------------------

MinOf(S) == CHOOSE x \in S : \A y \in S : x <= y

\* The seats of a pot's eligible list that are still in the hand.
PotEligible(ps, sp) ==
    {i \in active_players(ps) : ps[i].player_id \in sp.eligible}

\* The winners of a pot: the eligible seats with the minimum score.
PotWinners(ps, sp, sc) ==
    LET eligible == PotEligible(ps, sp)
        best_score == MinOf({sc[ps[i].player_id] : i \in eligible})
    IN  {i \in eligible : sc[ps[i].player_id] = best_score}

\* What seat i gets from a pot: the share, plus the remainder for the first
\* winner in seat order.
PotAward(ps, sp, sc, i) ==
    LET pot_winners == PotWinners(ps, sp, sc)
        share == sp.amount \div Cardinality(pot_winners)
        remainder == sp.amount % Cardinality(pot_winners)
    IN  IF i \notin pot_winners THEN 0
        ELSE share + (IF i = MinOf(pot_winners) THEN remainder ELSE 0)

\* One pass of the loop over the side pots; a pot with nobody eligible is
\* skipped.
AwardPot(ps, sp, sc) ==
    IF PotEligible(ps, sp) = {} THEN ps
    ELSE [i \in DOMAIN ps |->
            [ps[i] EXCEPT !.chips = @ + PotAward(ps, sp, sc, i)]]

RECURSIVE AwardPots(_, _, _, _)
AwardPots(ps, pots, k, sc) ==
    IF k > Len(pots) THEN ps
    ELSE AwardPots(AwardPot(ps, pots[k], sc), pots, k + 1, sc)

\* The side pots the showdown awards: those of the ledger, or the single
\* fallback pot when the ledger gives none.
ShowdownPots(ps, led, pt) ==
    LET active_ids == {ps[i].player_id : i \in active_players(ps)}
        side_pots == calculate_side_pots(led, active_ids)
    IN  IF side_pots = <<>>
        THEN <<[amount |-> pt, eligible |-> active_ids, cap |-> 0]>>
        ELSE side_pots

\* The seats after the awards of the showdown.
run_showdown(ps, led, pt, sc) ==
    AwardPots(ps, ShowdownPots(ps, led, pt), 1, sc)

\* eval_best of each seat in the hand.  The score is a function of the
\* shuffled cards; the model lets the showdown see any assignment of
\* NumScores score values to the seats in the hand.
ScoreAssignments(ps) ==
    [{ps[i].player_id : i \in active_players(ps)} -> 1 .. NumScores]


\* ------------------------------------------------------------------------
\* The winner events (PokerGame._run_showdown, _award_to_last_remaining)
\* ------------------------------------------------------------------------

CardStrs(cards) == [k \in 1 .. Len(cards) |-> CardStr(cards[k])]

\* The entries the award loop appends to winners_info for one pot, in seat
\* order.
winners_of_pot(ps, sp, sc) ==
    IF PotEligible(ps, sp) = {} THEN <<>>
    ELSE LET order == SortedSeq(PotWinners(ps, sp, sc)) IN
         [k \in 1 .. Len(order) |->
             [player_id |-> ps[order[k]].player_id,
              amount |-> PotAward(ps, sp, sc, order[k]),
              hole_cards |-> CardStrs(ps[order[k]].hole_cards)]]

RECURSIVE winners_info(_, _, _, _)
winners_info(ps, pots, k, sc) ==
    IF k > Len(pots) THEN <<>>
    ELSE winners_of_pot(ps, pots[k], sc) \o winners_info(ps, pots, k + 1, sc)

\* A faulty variant of ShowdownHands: the hands of all seats are listed.
ShowdownHands_AllSeats(ps) == DOMAIN ps

\* The seats whose hands the showdown lists in all_hands.
ShowdownHands(ps) == active_players(ps)

\* The payload of the winner event of a showdown.
showdown_winner_payload(ps, cc, pots, sc) ==
    [winners |-> winners_info(ps, pots, 1, sc),
     community_cards |-> CardStrs(cc),
     all_hands |->
        [pid \in {ps[i].player_id : i \in ShowdownHands(ps)} |->
            LET i == player_index(ps, pid) IN
            [hole_cards |-> CardStrs(ps[i].hole_cards),
             score |-> IF pid \in DOMAIN sc THEN sc[pid] ELSE 9999]]]

\* The payload of the winner event when all but one seat folded; ps are the
\* seats after the pot was added to the winner's chips.
last_remaining_winner_payload(ps, cc, pt) ==
    [winners |-> LET order == SortedSeq(active_players(ps)) IN
                 [k \in 1 .. Len(order) |->
                     [player_id |-> ps[order[k]].player_id,
                      amount |-> pt,
                      hand |-> "Last player standing"]],
     community_cards |-> CardStrs(cc),
     all_hands |-> EmptyDict]


\* ------------------------------------------------------------------------
\* Subscribers (app/managers/connection_manager.py, PokerGame._broadcast)
\* ------------------------------------------------------------------------

\* The ids a websocket can connect with: the players and one spectator.
Subscribers == PlayerIds \cup {"p3", "watcher"}

\* A payload factory's None: the subscriber is skipped.
None == [skip |-> TRUE]

\* A socket that was sent nothing.
EmptyBox == [first |-> "none", last |-> "none", turn_of |-> "none"]

\* No seat is a bot and no bot action is scheduled.
NoBots == bots = {} /\ bot_task = "none"

\* No send is in progress.
NoSends == sending = {}

\* The tables of the hand evaluator are constants of its module, built at
\* import; the game specifications draw the seats' scores from
\* ScoreAssignments and carry no tables.
EvaluatorIdle ==
    /\ section = "idle"
    /\ cursor = 0
    /\ score = 0
    /\ flush_table = <<>>
    /\ unique5_table = <<>>
    /\ pairs_table = <<>>
    /\ entry = [table |-> "none", hand |-> <<>>, key |-> 0, score |-> 0]

\* No websocket has connected; the players are those added at creation.
NoSubscribers ==
    /\ members = PlayerIds
    /\ connections = {}
    /\ handler = [s \in Subscribers |-> "closed"]
    /\ inbox = [s \in Subscribers |-> EmptyBox]

\* A faulty variant of your_turn_factory: every subscriber gets the payload.
your_turn_factory_ToAll(pid, vid, valid) ==
    [player_id |-> vid,
     valid_actions |-> [can_check |-> valid.can_check,
                        call_amount |-> valid.call_amount,
                        min_raise |-> valid.min_raise,
                        max_raise |-> valid.max_raise,
                        can_raise |-> valid.can_raise]]

\* The payload factory of _prompt_player: the valid actions for the prompted
\* player, None for every other id.
your_turn_factory(pid, vid, valid) ==
    IF pid # vid THEN None
    ELSE [player_id |-> vid,
          valid_actions |-> [can_check |-> valid.can_check,
                             call_amount |-> valid.call_amount,
                             min_raise |-> valid.min_raise,
                             max_raise |-> valid.max_raise,
                             can_raise |-> valid.can_raise]]

\* broadcast_personalized: the payload sent to each registered subscriber;
\* a subscriber whose payload is None is sent nothing.
broadcast_personalized(conns, payload_factory) ==
    [s \in {c \in conns : payload_factory[c] # None} |-> payload_factory[s]]

\* The sends in progress once the awaits of `task` returned: gather, and
\* an awaited send_json, return when the task's sends are over.
Returned(snd, task) == {r \in snd : r.from # task}

\* A socket after it was sent one more event.
Received(box, event_type, payload) ==
    [first |-> IF box.first = "none" THEN event_type ELSE box.first,
     last |-> event_type,
     turn_of |-> IF event_type = "your_turn" THEN payload.player_id
                 ELSE box.turn_of]

\* _broadcast(event_type, payload_factory) through the connection manager.
Deliver(event_type, payload_factory) ==
    LET sent == broadcast_personalized(connections, payload_factory) IN
    /\ inbox' = [s \in DOMAIN inbox |->
                    IF s \in DOMAIN sent
                    THEN Received(inbox[s], event_type, sent[s])
                    ELSE inbox[s]]
    /\ sending' = Returned(sending, "driver")
                   \cup {[to |-> s, from |-> "driver"] : s \in DOMAIN sent}
    /\ UNCHANGED <<members, connections, handler, evalVars, botVars>>

\* A broadcast whose factory returns a payload for every id (the state
\* snapshot, and the payloads of action_taken, winner and game_over).
Broadcast(event_type) ==
    Deliver(event_type, [s \in Subscribers |-> [type |-> event_type]])

\* _prompt_player(player_id, betting) for the seat `who` of ps.
prompt_player(ps, var, b, who) ==
    Deliver("your_turn",
            [s \in Subscribers |->
                your_turn_factory(s, ps[who].player_id,
                                  get_valid_actions(ps, var, b, who))])


\* ------------------------------------------------------------------------
\* The hand driver (PokerGame._game_loop, _run_hand, _run_betting_round)
\* ------------------------------------------------------------------------

Ledger == [contributions |-> contributions, all_in_amounts |-> all_in_amounts,
           total |-> total]

SetLedger(led) ==
    /\ contributions' = led.contributions
    /\ all_in_amounts' = led.all_in_amounts
    /\ total' = led.total

Init ==
    /\ variant \in Variants
    /\ phase = "waiting"
    /\ players = [i \in SeatIdx |-> PlayerState(PidOf(i), StartChips[i + 1])]
    /\ community_cards = <<>>
    /\ pot = 0
    /\ dealer_index = 0
    /\ current_player_index = 0
    /\ hand_number = 0
    /\ contributions = EmptyDict
    /\ all_in_amounts = EmptyDict
    /\ total = 0
    /\ deck = ShuffledDeck(0)
    /\ betting = NoBetting
    /\ result = "none"
    /\ pending_action = NoAction
    /\ action_event = FALSE
    /\ pc = "loop"
    /\ current_pid = "none"
    /\ last_event = "game_state"
    /\ last_action = NoAction
    /\ scores = EmptyDict
    /\ hand_start_total = TotalChips(players)
    /\ NoSubscribers
    /\ EvaluatorIdle
    /\ NoBots
    /\ NoSends

\* _game_loop: two seats are seated; phase STARTING, then sleep(1).
BeginStarting ==
    /\ pc = "loop"
    /\ Cardinality(seated_players(players)) >= 2
    /\ hand_number < MaxHands
    /\ phase' = "starting"
    /\ pc' = "starting"
    /\ UNCHANGED <<variant, players, community_cards, pot, dealer_index,
                   current_player_index, hand_number, potVars, deck, betting,
                   result, pending_action, action_event, current_pid,
                   last_event, last_action, scores, hand_start_total,
                   netVars, evalVars, botVars, sinkVars>>

\* The per-hand reset of the seats at the top of _run_hand.
ResetSeat(p) ==
    [p EXCEPT !.hole_cards = <<>>, !.bet = 0, !.total_bet = 0,
              !.is_folded = FALSE, !.is_all_in = FALSE]

\* A faulty variant of NextHandNumber: the counter is left as it is.
NextHandNumber_Stuck(n) == n

\* The first statement of _run_hand: hand_number += 1.
NextHandNumber(n) == n + 1

\* _run_hand up to the broadcast of hand_starting: reset, dealer, blinds,
\* ledger, hole cards.
RunHandStart ==
    /\ pc = "starting"
    /\ \E k \in 0 .. (NumShuffles - 1) :
        LET ps0 == [i \in DOMAIN players |-> ResetSeat(players[i])]
            dealer == advance_dealer(ps0, dealer_index)
            blinds == get_blind_indices(ps0, dealer)
            posted == post_blinds(ps0, dealer, pot)
            sb_player == posted.players[PyIndex(ps0, blinds[1])]
            bb_player == posted.players[PyIndex(ps0, blinds[2])]
            led1 == add_contribution(EmptyLedger, sb_player.player_id,
                                     posted.sb_amount, sb_player.is_all_in)
            led2 == add_contribution(led1, bb_player.player_id,
                                     posted.bb_amount, bb_player.is_all_in)
            dealt == DealHoleCards(posted.players, ShuffledDeck(k))
        IN  /\ hand_number' = NextHandNumber(hand_number)
            /\ dealer_index' = dealer
            /\ players' = dealt.players
            /\ deck' = dealt.deck
            /\ pot' = posted.pot
            /\ SetLedger(led2)
            /\ hand_start_total' = TotalChips(players) + pot
    /\ phase' = "preflop"
    /\ community_cards' = <<>>
    /\ scores' = EmptyDict
    /\ last_event' = "hand_starting"
    /\ pc' = "ev_hand_starting"
    /\ Broadcast("hand_starting")
    /\ UNCHANGED <<variant, current_player_index, betting, result,
                   pending_action, action_event, current_pid, last_action>>

\* _reset_street_bets
reset_street_bets(ps) == [i \in DOMAIN ps |-> [ps[i] EXCEPT !.bet = 0]]

\* The start of _run_betting_round, after the broadcast that opened the
\* street returned: first actor, street bets, a new BettingRound, and the
\* first prompt (or ROUND_COMPLETE at once when nobody is to act).
BeginBettingRound ==
    /\ pc \in {"ev_hand_starting", "ev_community"}
    /\ LET first == IF phase = "preflop"
                    THEN first_to_act_preflop(players, dealer_index)
                    ELSE first_to_act_postflop(players, dealer_index)
           ps1 == IF phase = "preflop" THEN players
                  ELSE reset_street_bets(players)
           who == next_to_act(ps1, first)
       IN  /\ current_player_index' = first
           /\ players' = ps1
           /\ betting' = NewBettingRound(ps1, variant, phase)
           /\ IF who = -1
              THEN /\ result' = "round_complete"
                   /\ pc' = "sleep_street"
                   /\ sending' = Returned(sending, "driver")
                   /\ UNCHANGED <<current_pid, last_event, netVars, evalVars,
                                  botVars>>
              ELSE /\ current_pid' = ps1[who].player_id
                   /\ last_event' = "your_turn"
                   /\ prompt_player(ps1, variant,
                                    NewBettingRound(ps1, variant, phase), who)
                   /\ pc' = "ev_your_turn"
                   /\ UNCHANGED result
    /\ UNCHANGED <<variant, phase, community_cards, pot, dealer_index,
                   hand_number, potVars, deck, pending_action, action_event,
                   last_action, scores, hand_start_total>>

\* _wait_for_action up to its first wait: a bot's action is scheduled, the
\* event is cleared, then the driver waits.
EnterWait ==
    /\ pc = "ev_your_turn"
    /\ bot_task' = IF current_pid \in bots THEN current_pid ELSE bot_task
    /\ action_event' = FALSE
    /\ pc' = "wait"
    /\ UNCHANGED <<gameVars, potVars, deck, betting, result, pending_action,
                   current_pid, last_event, last_action, scores,
                   hand_start_total, netVars, evalVars, bots>>
    /\ sending' = Returned(sending, "driver")

\* submit_action, called by a websocket handler at any time during a turn.
SubmitAction(sub) ==
    /\ pc \in {"ev_your_turn", "wait"}
    /\ pending_action' = sub
    /\ action_event' = TRUE
    /\ UNCHANGED <<gameVars, potVars, deck, betting, result, pc, current_pid,
                   last_event, last_action, scores, hand_start_total,
                   netVars, evalVars, botVars, sinkVars>>

\* A faulty variant of AcceptPending: any pending action is taken.
AcceptPending_AnyPlayer(pending, expected_player_id) == pending # NoAction

\* The test of _wait_for_action on the pending slot.
AcceptPending(pending, expected_player_id) ==
    /\ pending # NoAction
    /\ pending.player_id = expected_player_id

\* A faulty variant of SyncLedger: the delta is taken from the street bet
\* instead of the hand's total_bet.
SyncLedger_StreetBet(led, ps, pid) ==
    LET i == player_index(ps, pid)
        delta == ps[i].bet - get_contribution(led.contributions, pid)
    IN  IF i # -1 /\ delta > 0
        THEN add_contribution(led, pid, delta, ps[i].is_all_in)
        ELSE led

\* The driver's sync of the pot manager after apply_action.
SyncLedger(led, ps, pid) ==
    LET i == player_index(ps, pid)
        delta == ps[i].total_bet - get_contribution(led.contributions, pid)
    IN  IF i # -1 /\ delta > 0
        THEN add_contribution(led, pid, delta, ps[i].is_all_in)
        ELSE led

\* The awaited event fired and the slot holds nothing for the expected
\* player: clear the event and wait again.
WakeDrop ==
    /\ pc = "wait"
    /\ action_event
    /\ ~AcceptPending(pending_action, current_pid)
    /\ action_event' = FALSE
    /\ UNCHANGED <<gameVars, potVars, deck, betting, result, pending_action,
                   pc, current_pid, last_event, last_action, scores,
                   hand_start_total, netVars, evalVars, botVars, sinkVars>>

\* The awaited event fired and the slot holds the expected player's action,
\* which apply_action rejects: the ValueError leaves _run_betting_round,
\* _run_hand and _game_loop, none of which catches it.
WakeReject ==
    /\ pc = "wait"
    /\ action_event
    /\ AcceptPending(pending_action, current_pid)
    /\ Rejects(players, variant, betting, pending_action.player_id,
               pending_action.action)
    /\ pending_action' = NoAction
    /\ pc' = "crashed"
    /\ UNCHANGED <<gameVars, potVars, deck, betting, result, action_event,
                   current_pid, last_event, last_action, scores,
                   hand_start_total, netVars, evalVars, botVars, sinkVars>>

\* The awaited event fired and the slot holds the expected player's action:
\* claim it, apply it, sync the ledger, broadcast action_taken.
WakeApply ==
    /\ pc = "wait"
    /\ action_event
    /\ AcceptPending(pending_action, current_pid)
    /\ ~Rejects(players, variant, betting, pending_action.player_id,
                pending_action.action)
    /\ LET a == pending_action
           r == apply_action(players, pot, variant, betting,
                             current_player_index, a.player_id, a.action,
                             a.amount)
       IN  /\ players' = r.players
           /\ pot' = r.pot
           /\ betting' = r.betting
           /\ current_player_index' = r.current_player_index
           /\ result' = r.result
           /\ SetLedger(SyncLedger(Ledger, r.players, a.player_id))
           /\ last_action' = a
    /\ pending_action' = NoAction
    /\ last_event' = "action_taken"
    /\ Broadcast("action_taken")
    /\ pc' = "ev_action_taken"
    /\ UNCHANGED <<variant, phase, community_cards, dealer_index, hand_number,
                   deck, action_event, current_pid, scores, hand_start_total>>


\* The seats after the loop that marks busted seats in _game_loop.
MarkBusted(ps) ==
    [i \in DOMAIN ps |->
        IF ps[i].chips = 0 /\ ~ps[i].is_sitting_out
        THEN [ps[i] EXCEPT !.is_sitting_out = TRUE]
        ELSE ps[i]]

\* The end of a hand in _game_loop, from the return of _run_hand to the
\* broadcast of hand_over.
FinishHand(ps) ==
    /\ players' = MarkBusted(ps)
    /\ phase' = "hand_over"
    /\ last_event' = "hand_over"
    /\ Broadcast("hand_over")
    /\ pc' = "ev_hand_over"

\* The chips of the seats after _award_to_last_remaining added the pot.
award_to_last_remaining(ps, pt) ==
    LET active == active_players(ps) IN
    IF Cardinality(active) = 1
    THEN [i \in DOMAIN ps |->
            IF i \in active THEN [ps[i] EXCEPT !.chips = @ + pt] ELSE ps[i]]
    ELSE ps

\* After the broadcast of action_taken: leave the round with its result, or
\* prompt the next seat.  A round left with ALL_FOLDED goes to
\* _award_to_last_remaining, which broadcasts winner before it clears the pot.
AfterAction ==
    /\ pc = "ev_action_taken"
    /\ LET who == next_to_act(players, current_player_index) IN
       IF result = "all_folded"
       THEN /\ betting' = NoBetting
            /\ current_pid' = "none"
            /\ result' = "none"
            /\ IF Cardinality(active_players(players)) = 1
               THEN /\ players' = award_to_last_remaining(players, pot)
                    /\ last_event' = "winner"
                    /\ Broadcast("winner")
                    /\ pc' = "ev_winner_fold"
                    /\ UNCHANGED phase
               ELSE FinishHand(players)
       ELSE IF result = "round_complete" \/ who = -1
       THEN /\ betting' = NoBetting
            /\ current_pid' = "none"
            /\ result' = "round_complete"
            /\ pc' = "sleep_street"
            /\ sending' = Returned(sending, "driver")
            /\ UNCHANGED <<players, phase, last_event, netVars,
                           evalVars, botVars>>
       ELSE /\ current_pid' = players[who].player_id
            /\ last_event' = "your_turn"
            /\ prompt_player(players, variant, betting, who)
            /\ pc' = "ev_your_turn"
            /\ UNCHANGED <<players, phase, betting, result>>
    /\ last_action' = NoAction
    /\ UNCHANGED <<variant, community_cards, pot, dealer_index,
                   current_player_index, hand_number, potVars, deck,
                   pending_action, action_event, scores, hand_start_total>>

NextPhase(ph) ==
    CASE ph = "preflop" -> "flop"
      [] ph = "flop" -> "turn"
      [] ph = "turn" -> "river"
      [] OTHER -> "showdown"

\* After the pause that follows a completed street: deal the next street
\* and broadcast community_card.
DealStreet ==
    /\ pc = "sleep_street"
    /\ phase \in {"preflop", "flop", "turn"}
    /\ LET d == deal(deck, IF phase = "preflop" THEN 3 ELSE 1) IN
        /\ community_cards' = community_cards \o d[1]
        /\ deck' = d[2]
    /\ phase' = NextPhase(phase)
    /\ last_event' = "community_card"
    /\ Broadcast("community_card")
    /\ pc' = "ev_community"
    /\ result' = "none"
    /\ UNCHANGED <<variant, players, pot, dealer_index, current_player_index,
                   hand_number, potVars, betting, pending_action,
                   action_event, current_pid, last_action, scores,
                   hand_start_total>>

\* After the pause that follows the river: _run_showdown up to its
\* broadcast of winner.
Showdown ==
    /\ pc = "sleep_street"
    /\ phase = "river"
    /\ \E sc \in ScoreAssignments(players) :
        /\ scores' = sc
        /\ players' = run_showdown(players, Ledger, pot, sc)
    /\ phase' = "showdown"
    /\ pot' = 0
    /\ last_event' = "winner"
    /\ Broadcast("winner")
    /\ pc' = "ev_winner_showdown"
    /\ result' = "none"
    /\ UNCHANGED <<variant, community_cards, dealer_index,
                   current_player_index, hand_number, potVars, deck, betting,
                   pending_action, action_event, current_pid, last_action,
                   hand_start_total>>

\* After the broadcast of winner: the all-folded path clears the pot, then
\* both paths return to _game_loop, which ends the hand.
AfterWinner ==
    /\ pc \in {"ev_winner_fold", "ev_winner_showdown"}
    /\ pot' = IF pc = "ev_winner_fold" THEN 0 ELSE pot
    /\ FinishHand(players)
    /\ UNCHANGED <<variant, community_cards, dealer_index,
                   current_player_index, hand_number, potVars, deck, betting,
                   result, pending_action, action_event, current_pid,
                   last_action, scores, hand_start_total>>

\* After the broadcast of hand_over and sleep(3): another hand while two
\* seats are seated.
NextHand ==
    /\ pc = "ev_hand_over"
    /\ Cardinality(seated_players(players)) >= 2
    /\ pc' = "loop"
    /\ sending' = Returned(sending, "driver")
    /\ UNCHANGED <<gameVars, potVars, deck, betting, result, pending_action,
                   action_event, current_pid, last_event, last_action, scores,
                   hand_start_total, netVars, evalVars, botVars>>

\* After the broadcast of hand_over and sleep(3): game_over when fewer than
\* two seats are seated.
GameOver ==
    /\ pc = "ev_hand_over"
    /\ Cardinality(seated_players(players)) < 2
    /\ last_event' = "game_over"
    /\ Broadcast("game_over")
    /\ pc' = "done"
    /\ UNCHANGED <<gameVars, potVars, deck, betting, result, pending_action,
                   action_event, current_pid, last_action, scores,
                   hand_start_total>>

Next ==
    \/ BeginStarting
    \/ RunHandStart
    \/ BeginBettingRound
    \/ EnterWait
    \/ \E sub \in Submissions : SubmitAction(sub)
    \/ WakeDrop
    \/ WakeReject
    \/ WakeApply
    \/ AfterAction
    \/ DealStreet
    \/ Showdown
    \/ AfterWinner
    \/ NextHand
    \/ GameOver

Spec == Init /\ [][Next]_vars

\* ------------------------------------------------------------------------
\* The same driver at a table whose first seat to act holds the deep stack
\* ------------------------------------------------------------------------

\* Chips of the seats at add_player: the blinds are short, the seat after
\* the big blind can raise more than once.
DeepChips == <<2, 6, 2>>

InitDeep ==
    /\ variant \in Variants
    /\ phase = "waiting"
    /\ players = [i \in SeatIdx |-> PlayerState(PidOf(i), DeepChips[i + 1])]
    /\ community_cards = <<>>
    /\ pot = 0
    /\ dealer_index = 0
    /\ current_player_index = 0
    /\ hand_number = 0
    /\ contributions = EmptyDict
    /\ all_in_amounts = EmptyDict
    /\ total = 0
    /\ deck = ShuffledDeck(0)
    /\ betting = NoBetting
    /\ result = "none"
    /\ pending_action = NoAction
    /\ action_event = FALSE
    /\ pc = "loop"
    /\ current_pid = "none"
    /\ last_event = "game_state"
    /\ last_action = NoAction
    /\ scores = EmptyDict
    /\ hand_start_total = TotalChips(players)
    /\ NoSubscribers
    /\ EvaluatorIdle
    /\ NoBots
    /\ NoSends

SpecDeep == InitDeep /\ [][Next]_vars


\* ------------------------------------------------------------------------
\* A match: the same driver over several hands at a table of short stacks,
\* where hands are brief and seats bust
\* ------------------------------------------------------------------------

\* Chips of the seats at add_player.
MatchChips == <<3, 1, 2>>

InitMatch ==
    /\ variant \in Variants
    /\ phase = "waiting"
    /\ players = [i \in SeatIdx |-> PlayerState(PidOf(i), MatchChips[i + 1])]
    /\ community_cards = <<>>
    /\ pot = 0
    /\ dealer_index = 0
    /\ current_player_index = 0
    /\ hand_number = 0
    /\ contributions = EmptyDict
    /\ all_in_amounts = EmptyDict
    /\ total = 0
    /\ deck = ShuffledDeck(0)
    /\ betting = NoBetting
    /\ result = "none"
    /\ pending_action = NoAction
    /\ action_event = FALSE
    /\ pc = "loop"
    /\ current_pid = "none"
    /\ last_event = "game_state"
    /\ last_action = NoAction
    /\ scores = EmptyDict
    /\ hand_start_total = TotalChips(players)
    /\ NoSubscribers
    /\ EvaluatorIdle
    /\ NoBots
    /\ NoSends

\* _game_loop: two seats are seated; phase STARTING, then sleep(1).  The
\* match is explored for MatchHands hands.
BeginMatchHand ==
    /\ pc = "loop"
    /\ Cardinality(seated_players(players)) >= 2
    /\ hand_number < MatchHands
    /\ phase' = "starting"
    /\ pc' = "starting"
    /\ UNCHANGED <<variant, players, community_cards, pot, dealer_index,
                   current_player_index, hand_number, potVars, deck, betting,
                   result, pending_action, action_event, current_pid,
                   last_event, last_action, scores, hand_start_total,
                   netVars, evalVars, botVars, sinkVars>>

NextMatch ==
    \/ BeginMatchHand
    \/ RunHandStart
    \/ BeginBettingRound
    \/ EnterWait
    \/ \E sub \in Submissions : SubmitAction(sub)
    \/ WakeDrop
    \/ WakeReject
    \/ WakeApply
    \/ AfterAction
    \/ DealStreet
    \/ Showdown
    \/ AfterWinner
    \/ NextHand
    \/ GameOver

SpecMatch == InitMatch /\ [][NextMatch]_vars


\* ------------------------------------------------------------------------
\* The pot manager on its own: any sequence of calls of its interface
\* ------------------------------------------------------------------------

\* A PotManager just constructed; the rest of the state is left as built.
InitPot ==
    /\ variant = "no_limit"
    /\ phase = "waiting"
    /\ players = [i \in SeatIdx |-> PlayerState(PidOf(i), StartChips[i + 1])]
    /\ community_cards = <<>>
    /\ pot = 0
    /\ dealer_index = 0
    /\ current_player_index = 0
    /\ hand_number = 0
    /\ contributions = EmptyDict
    /\ all_in_amounts = EmptyDict
    /\ total = 0
    /\ deck = ShuffledDeck(0)
    /\ betting = NoBetting
    /\ result = "none"
    /\ pending_action = NoAction
    /\ action_event = FALSE
    /\ pc = "pot_manager"
    /\ current_pid = "none"
    /\ last_event = "none"
    /\ last_action = NoAction
    /\ scores = EmptyDict
    /\ hand_start_total = 0
    /\ NoSubscribers
    /\ EvaluatorIdle
    /\ NoBots
    /\ NoSends

nonPotVars == <<gameVars, deck, betting, result, pending_action, action_event,
                pc, current_pid, last_event, last_action, scores,
                hand_start_total, netVars, evalVars, botVars, sinkVars>>

\* PotManager.add_contribution(player_id, amount, is_all_in)
PotAdd(pid, amount, is_all_in) ==
    /\ get_contribution(contributions, pid) + amount <= MaxContribution
    /\ SetLedger(add_contribution(Ledger, pid, amount, is_all_in))
    /\ UNCHANGED nonPotVars

\* PotManager.reset()
PotReset ==
    /\ contributions # EmptyDict
    /\ SetLedger(EmptyLedger)
    /\ UNCHANGED nonPotVars

NextPot ==
    \/ \E pid \in PlayerIds, amount \in 0 .. MaxContribution,
          is_all_in \in BOOLEAN : PotAdd(pid, amount, is_all_in)
    \/ PotReset

SpecPot == InitPot /\ [][NextPot]_vars


\* ------------------------------------------------------------------------
\* A betting round on its own: a BettingRound built on a table with the
\* blinds posted and driven by direct calls of apply_action
\* ------------------------------------------------------------------------

\* The stacks of the table the round is built on.
BetChips == <<12, 12, 3>>

\* An id that is no seat of the table.
UnknownId == "ghost"

\* The table after post_blinds with the dealer at seat 0, and a BettingRound
\* for the preflop street just constructed on it.
InitBet ==
    /\ variant \in Variants
    /\ phase = "preflop"
    /\ LET seats == [i \in SeatIdx |-> PlayerState(PidOf(i), BetChips[i + 1])]
           posted == post_blinds(seats, 0, 0)
       IN  /\ players = posted.players
           /\ pot = posted.pot
           /\ current_player_index = first_to_act_preflop(posted.players, 0)
           /\ betting = NewBettingRound(posted.players, variant, "preflop")
    /\ community_cards = <<>>
    /\ dealer_index = 0
    /\ hand_number = 1
    /\ contributions = EmptyDict
    /\ all_in_amounts = EmptyDict
    /\ total = 0
    /\ deck = ShuffledDeck(0)
    /\ result = "none"
    /\ pending_action = NoAction
    /\ action_event = FALSE
    /\ pc = "betting_round"
    /\ current_pid = "none"
    /\ last_event = "none"
    /\ last_action = NoAction
    /\ scores = EmptyDict
    /\ hand_start_total = 0
    /\ NoSubscribers
    /\ EvaluatorIdle
    /\ NoBots
    /\ NoSends

\* The player the round expects next, as next_to_act gives it.
BetActor ==
    LET who == next_to_act(players, current_player_index) IN
    IF who = -1 THEN "none" ELSE players[who].player_id

\* apply_action(player_id, action, raise_amount) returns a BettingResult.
BetApply(pid, action, raise_amount) ==
    /\ pc = "betting_round"
    /\ result \in {"none", "continue"}
    /\ pid = BetActor
    /\ ~Rejects(players, variant, betting, pid, action)
    /\ LET r == apply_action(players, pot, variant, betting,
                             current_player_index, pid, action, raise_amount)
       IN  /\ players' = r.players
           /\ pot' = r.pot
           /\ betting' = r.betting
           /\ current_player_index' = r.current_player_index
           /\ result' = r.result
    /\ last_action' = [player_id |-> pid, action |-> action,
                       amount |-> raise_amount]
    /\ last_event' = "applied"
    /\ UNCHANGED <<variant, phase, community_cards, dealer_index, hand_number,
                   potVars, deck, pending_action, action_event, pc,
                   current_pid, scores, hand_start_total, netVars, evalVars,
                   botVars, sinkVars>>

\* A faulty variant of BetReject: the player is put in the acted-set before
\* the action is validated.
BetReject_ActedFirst(pid, action) ==
    /\ pc = "betting_round"
    /\ result \in {"none", "continue"}
    /\ pid \in {BetActor, UnknownId}
    /\ Rejects(players, variant, betting, pid, action)
    /\ betting' = [betting EXCEPT !.players_acted = @ \cup {pid}]
    /\ last_action' = [player_id |-> pid, action |-> action, amount |-> 0]
    /\ last_event' = "rejected"
    /\ UNCHANGED <<gameVars, potVars, deck, result, pending_action,
                   action_event, pc, current_pid, scores, hand_start_total,
                   netVars, evalVars, botVars, sinkVars>>

\* apply_action(player_id, action) raises ValueError: the player is not
\* found, or the action is a CHECK or RAISE that is not valid for it.
BetReject(pid, action) ==
    /\ pc = "betting_round"
    /\ result \in {"none", "continue"}
    /\ pid \in {BetActor, UnknownId}
    /\ Rejects(players, variant, betting, pid, action)
    /\ last_action' = [player_id |-> pid, action |-> action, amount |-> 0]
    /\ last_event' = "rejected"
    /\ UNCHANGED <<gameVars, potVars, deck, betting, result, pending_action,
                   action_event, pc, current_pid, scores, hand_start_total,
                   netVars, evalVars, botVars, sinkVars>>

NextBet ==
    \/ \E pid \in PlayerIds, action \in BettingActions,
          raise_amount \in RaiseAmounts : BetApply(pid, action, raise_amount)
    \/ \E pid \in PlayerIds \cup {UnknownId}, action \in BettingActions :
          BetReject(pid, action)

SpecBet == InitBet /\ [][NextBet]_vars


\* ------------------------------------------------------------------------
\* The start of a hand on its own: _run_hand up to hand_starting, run on
\* each table the game loop can hand it
\* ------------------------------------------------------------------------

\* The stacks a seat may hold between two hands.
TableChips == {0, 1, 2, 5}

\* A seat between two hands: a seat without chips was marked sitting out by
\* the game loop; a seat with chips sits out if its player has left.
TableSeats ==
    {q \in [chips : TableChips, is_sitting_out : BOOLEAN] :
        q.chips = 0 => q.is_sitting_out}

\* The game loop is about to run a hand (phase STARTING): at least two seats
\* are seated, the button is at any seat, the ledger and the pot are empty.
InitTable ==
    /\ variant \in Variants
    /\ phase = "starting"
    /\ \E t \in [SeatIdx -> TableSeats] :
          players = [i \in SeatIdx |->
                        [PlayerState(PidOf(i), t[i].chips)
                            EXCEPT !.is_sitting_out = t[i].is_sitting_out]]
    /\ Cardinality(seated_players(players)) >= 2
    /\ community_cards = <<>>
    /\ pot = 0
    /\ dealer_index \in SeatIdx
    /\ current_player_index = 0
    /\ hand_number = 1
    /\ contributions = EmptyDict
    /\ all_in_amounts = EmptyDict
    /\ total = 0
    /\ deck = ShuffledDeck(0)
    /\ betting = NoBetting
    /\ result = "none"
    /\ pending_action = NoAction
    /\ action_event = FALSE
    /\ pc = "starting"
    /\ current_pid = "none"
    /\ last_event = "hand_over"
    /\ last_action = NoAction
    /\ scores = EmptyDict
    /\ hand_start_total = TotalChips(players)
    /\ NoSubscribers
    /\ EvaluatorIdle
    /\ NoBots
    /\ NoSends

NextTable == RunHandStart

SpecTable == InitTable /\ [][NextTable]_vars


\* ------------------------------------------------------------------------
\* The start of a hand at a table of four: _run_hand up to the first prompt
\* of the preflop betting round
\* ------------------------------------------------------------------------

\* The seats of a table of four (max_players allows up to nine).
WideSeatIdx == 0 .. 3

\* As InitTable, with four seats; nobody is connected.
InitWide ==
    /\ variant \in Variants
    /\ phase = "starting"
    /\ \E t \in [WideSeatIdx -> TableSeats] :
          players = [i \in WideSeatIdx |->
                        [PlayerState(PidOf(i), t[i].chips)
                            EXCEPT !.is_sitting_out = t[i].is_sitting_out]]
    /\ Cardinality(seated_players(players)) >= 2
    /\ community_cards = <<>>
    /\ pot = 0
    /\ dealer_index \in WideSeatIdx
    /\ current_player_index = 0
    /\ hand_number = 1
    /\ contributions = EmptyDict
    /\ all_in_amounts = EmptyDict
    /\ total = 0
    /\ deck = ShuffledDeck(0)
    /\ betting = NoBetting
    /\ result = "none"
    /\ pending_action = NoAction
    /\ action_event = FALSE
    /\ pc = "starting"
    /\ current_pid = "none"
    /\ last_event = "hand_over"
    /\ last_action = NoAction
    /\ scores = EmptyDict
    /\ hand_start_total = TotalChips(players)
    /\ members = {PidOf(i) : i \in WideSeatIdx}
    /\ connections = {}
    /\ handler = [s \in Subscribers |-> "closed"]
    /\ inbox = [s \in Subscribers |-> EmptyBox]
    /\ EvaluatorIdle
    /\ NoBots
    /\ NoSends

NextWide ==
    \/ RunHandStart
    \/ BeginBettingRound

SpecWide == InitWide /\ [][NextWide]_vars


\* ------------------------------------------------------------------------
\* The driver with its callers: websocket handlers that connect and
\* disconnect, and a join over the REST route, interleaved with the driver
\* at its awaits (app/api/websocket.py, app/api/routes.py)
\* ------------------------------------------------------------------------

\* Chips of the two seats at add_player.
OpenChips == <<2, 3>>

\* The subscribers that open a websocket.
Visitors == {"p0", "p1"}

\* The player that joins over the REST route, and its buy-in.
Joiner == "p2"
BuyIns == {2}

\* PokerGame.__init__: max_players = 9
max_players == 9

InitOpen ==
    /\ variant \in Variants
    /\ phase = "waiting"
    /\ players = [i \in 0 .. (Len(OpenChips) - 1) |->
                     PlayerState(PidOf(i), OpenChips[i + 1])]
    /\ community_cards = <<>>
    /\ pot = 0
    /\ dealer_index = 0
    /\ current_player_index = 0
    /\ hand_number = 0
    /\ contributions = EmptyDict
    /\ all_in_amounts = EmptyDict
    /\ total = 0
    /\ deck = ShuffledDeck(0)
    /\ betting = NoBetting
    /\ result = "none"
    /\ pending_action = NoAction
    /\ action_event = FALSE
    /\ pc = "loop"
    /\ current_pid = "none"
    /\ last_event = "game_state"
    /\ last_action = NoAction
    /\ scores = EmptyDict
    /\ hand_start_total = TotalChips(players)
    /\ members = {players[i].player_id : i \in DOMAIN players}
    /\ connections = {}
    /\ handler = [s \in Subscribers |-> "closed"]
    /\ inbox = [s \in Subscribers |-> EmptyBox]
    /\ EvaluatorIdle
    /\ NoBots
    /\ NoSends

\* The driver is suspended at an await (or has returned): in _game_loop the
\* only await before a hand is the sleep taken with fewer than two seats.
Suspended == pc = "loop" => Cardinality(seated_players(players)) < 2

\* A faulty variant of accept: the socket is registered before the
\* handshake is awaited.
accept_Registers(conns, s) == conns \cup {s}

\* ConnectionManager.connect up to `await websocket.accept()`: nothing is
\* registered yet.
accept(conns, s) == conns

\* websocket_endpoint up to the await of the handshake.
Accept(s) ==
    /\ Suspended
    /\ handler[s] = "closed"
    /\ handler' = [handler EXCEPT ![s] = "accepting"]
    /\ connections' = accept(connections, s)
    /\ UNCHANGED <<gameVars, potVars, deck, betting, result, pending_action,
                   action_event, pc, current_pid, last_event, last_action,
                   scores, hand_start_total, members, inbox, evalVars, botVars,
                   sinkVars>>

\* The handshake returned: the socket is registered and the game_state
\* snapshot is sent on it, with no await in between.
Register(s) ==
    /\ Suspended
    /\ handler[s] = "accepting"
    /\ handler' = [handler EXCEPT ![s] = "open"]
    /\ connections' = connections \cup {s}
    /\ inbox' = [inbox EXCEPT
                    ![s] = Received(@, "game_state", [type |-> "game_state"])]
    /\ UNCHANGED <<gameVars, potVars, deck, betting, result, pending_action,
                   action_event, pc, current_pid, last_event, last_action,
                   scores, hand_start_total, members, evalVars, botVars,
                   sinkVars>>

\* The seats without the seat of pid, in order.
WithoutSeat(ps, pid) ==
    LET keep == {i \in DOMAIN ps : ps[i].player_id # pid}
        rank(i) == Cardinality({j \in keep : j < i})
    IN  [k \in 0 .. (Cardinality(keep) - 1) |->
            ps[CHOOSE i \in keep : rank(i) = k]]

\* PokerGame.remove_player: the seats afterwards.
remove_player(ps, ph, mem, pid) ==
    IF pid \notin mem \/ player_index(ps, pid) = -1 THEN ps
    ELSE IF ph \notin {"waiting", "hand_over"}
    THEN [ps EXCEPT ![player_index(ps, pid)].is_sitting_out = TRUE,
                    ![player_index(ps, pid)].is_folded = TRUE]
    ELSE WithoutSeat(ps, pid)

\* The handler's receive raised WebSocketDisconnect: the socket leaves the
\* registry and the player is removed from the game.
Disconnect(s) ==
    /\ Suspended
    /\ handler[s] = "open"
    /\ handler' = [handler EXCEPT ![s] = "gone"]
    /\ connections' = connections \ {s}
    /\ players' = remove_player(players, phase, members, s)
    /\ members' = members \ {s}
    /\ UNCHANGED <<variant, phase, community_cards, pot, dealer_index,
                   current_player_index, hand_number, potVars, deck, betting,
                   result, pending_action, action_event, pc, current_pid,
                   last_event, last_action, scores, hand_start_total, inbox,
                   evalVars, botVars, sinkVars>>

\* PokerGame.add_player: the seats with the new seat appended.
add_player(ps, pid, chips) ==
    [i \in 0 .. Cardinality(DOMAIN ps) |->
        IF i \in DOMAIN ps THEN ps[i] ELSE PlayerState(pid, chips)]

\* join_game: a new player id buys in and takes the next seat.
Join(pid, buy_in) ==
    /\ Suspended
    /\ Cardinality(DOMAIN players) < max_players
    /\ Cardinality(members) < max_players
    /\ pid \notin members
    /\ players' = add_player(players, pid, buy_in)
    /\ members' = members \cup {pid}
    /\ UNCHANGED <<variant, phase, community_cards, pot, dealer_index,
                   current_player_index, hand_number, potVars, deck, betting,
                   result, pending_action, action_event, pc, current_pid,
                   last_event, last_action, scores, hand_start_total,
                   connections, handler, inbox, evalVars, botVars, sinkVars>>

NextOpen ==
    \/ BeginStarting
    \/ RunHandStart
    \/ BeginBettingRound
    \/ EnterWait
    \/ \E sub \in Submissions : SubmitAction(sub)
    \/ WakeDrop
    \/ WakeReject
    \/ WakeApply
    \/ AfterAction
    \/ DealStreet
    \/ Showdown
    \/ AfterWinner
    \/ NextHand
    \/ GameOver
    \/ \E s \in Visitors : Accept(s)
    \/ \E s \in Visitors : Register(s)
    \/ \E s \in Visitors : Disconnect(s)
    \/ \E b \in BuyIns : Join(Joiner, b)

SpecOpen == InitOpen /\ [][NextOpen]_vars


\* ------------------------------------------------------------------------
\* The hand evaluator's tables (app/core/hand_evaluator.py): _build_tables
\* run one table entry at a time, and rank_to_class
\* ------------------------------------------------------------------------

\* Everything but the run of _build_tables.
playVars == <<gameVars, potVars, deck, betting, result, pending_action,
              action_event, pc, current_pid, last_event, last_action, scores,
              hand_start_total, netVars, botVars, sinkVars>>

\* range(14, 1, -1): the ranks from the ace (14) down to the deuce (2).
RanksDesc == [i \in 1 .. 13 |-> 15 - i]

\* The prime of each rank.
primes ==
    (2 :> 2) @@ (3 :> 3) @@ (4 :> 5) @@ (5 :> 7) @@ (6 :> 11) @@ (7 :> 13)
    @@ (8 :> 17) @@ (9 :> 19) @@ (10 :> 23) @@ (11 :> 29) @@ (12 :> 31)
    @@ (13 :> 37) @@ (14 :> 41)

\* primes[r]
primes_of(r) == primes[r]

RECURSIVE Pow2(_)
Pow2(n) == IF n = 0 THEN 1 ELSE 2 * Pow2(n - 1)

\* One-hot bit mask of the ranks of a hand (bit 0 = rank 2); a rank held
\* twice sets its bit once.
rank_bits(rank_list) ==
    LET rs == {rank_list[i] : i \in DOMAIN rank_list}
    IN  SumOver(rs, [r \in rs |-> Pow2(r - 2)])

RECURSIVE prime_product(_)
prime_product(rank_list) ==
    IF rank_list = <<>> THEN 1
    ELSE primes_of(Head(rank_list)) * prime_product(Tail(rank_list))

\* itertools.combinations(pool, r): the r-tuples in the order of the pool.
RECURSIVE combinations(_, _)
combinations(pool, r) ==
    IF r = 0 THEN << <<>> >>
    ELSE IF Len(pool) < r THEN <<>>
    ELSE LET rest == combinations(Tail(pool), r - 1)
         IN  [i \in 1 .. Len(rest) |-> <<Head(pool)>> \o rest[i]]
                 \o combinations(Tail(pool), r)

\* The iterations of a nested loop, in order.
RECURSIVE Flatten(_)
Flatten(ss) == IF ss = <<>> THEN <<>> ELSE Head(ss) \o Flatten(Tail(ss))

\* [r for r in range(14, 1, -1) if r not in out]
RanksWithout(out) == SelectSeq(RanksDesc, LAMBDA r : r \notin out)

\* A-K-Q-J-T down to 6-5-4-3-2, then the wheel 5-4-3-2-A.
sf_straights ==
    [k \in 1 .. 10 |->
        IF k = 10 THEN <<5, 4, 3, 2, 14>>
        ELSE [j \in 1 .. 5 |-> 16 - k - j]]

straight_hands == sf_straights

straight_sets ==
    {{sf_straights[k][j] : j \in 1 .. 5} : k \in DOMAIN sf_straights}

\* for quad_rank ...: for kicker ...: if kicker == quad_rank: continue
quad_hands ==
    Flatten([q \in 1 .. 13 |->
        LET quad_rank == RanksDesc[q]
            kickers == RanksWithout({quad_rank})
        IN  [k \in 1 .. Len(kickers) |->
                <<quad_rank, quad_rank, quad_rank, quad_rank, kickers[k]>>]])

full_house_hands ==
    Flatten([t \in 1 .. 13 |->
        LET trips_rank == RanksDesc[t]
            pair_ranks == RanksWithout({trips_rank})
        IN  [k \in 1 .. Len(pair_ranks) |->
                <<trips_rank, trips_rank, trips_rank,
                  pair_ranks[k], pair_ranks[k]>>]])

\* All 5-rank combinations that are not straights, best first.
flush_hands ==
    SelectSeq(combinations(RanksDesc, 5),
              LAMBDA c : {c[j] : j \in 1 .. 5} \notin straight_sets)

trips_hands ==
    Flatten([t \in 1 .. 13 |->
        LET trips_rank == RanksDesc[t]
            ks == combinations(RanksWithout({trips_rank}), 2)
        IN  [k \in 1 .. Len(ks) |->
                <<trips_rank, trips_rank, trips_rank>> \o ks[k]]])

\* for p1 in range(14, 1, -1): for p2 in range(p1 - 1, 1, -1): for k ...
two_pair_hands ==
    Flatten([a \in 1 .. 13 |->
        LET p1 == RanksDesc[a] IN
        Flatten([b \in 1 .. (p1 - 2) |->
            LET p2 == p1 - b
                kickers == RanksWithout({p1, p2})
            IN  [k \in 1 .. Len(kickers) |->
                    <<p1, p1, p2, p2, kickers[k]>>]])])

one_pair_hands ==
    Flatten([p \in 1 .. 13 |->
        LET pair_rank == RanksDesc[p]
            ks == combinations(RanksWithout({pair_rank}), 3)
        IN  [k \in 1 .. Len(ks) |-> <<pair_rank, pair_rank>> \o ks[k]]])

\* table[key] = value
Put(table, key, value) == (key :> value) @@ table

\* The entry the loop has just written.
Entry(table, hand, key, value) ==
    [table |-> table, hand |-> hand, key |-> key, score |-> value]

\* _build_tables is entered: empty tables, score = 1.  No game exists yet.
InitEval ==
    /\ variant = "no_limit"
    /\ phase = "waiting"
    /\ players = <<>>
    /\ community_cards = <<>>
    /\ pot = 0
    /\ dealer_index = 0
    /\ current_player_index = 0
    /\ hand_number = 0
    /\ contributions = EmptyDict
    /\ all_in_amounts = EmptyDict
    /\ total = 0
    /\ deck = ShuffledDeck(0)
    /\ betting = NoBetting
    /\ result = "none"
    /\ pending_action = NoAction
    /\ action_event = FALSE
    /\ pc = "import"
    /\ current_pid = "none"
    /\ last_event = "none"
    /\ last_action = NoAction
    /\ scores = EmptyDict
    /\ hand_start_total = 0
    /\ members = {}
    /\ connections = {}
    /\ handler = [s \in Subscribers |-> "closed"]
    /\ inbox = [s \in Subscribers |-> EmptyBox]
    /\ NoBots
    /\ NoSends
    /\ section = "straight_flush"
    /\ cursor = 1
    /\ score = 1
    /\ flush_table = <<>>
    /\ unique5_table = <<>>
    /\ pairs_table = <<>>
    /\ entry = Entry("none", <<>>, 0, 0)

\* --- Straight Flushes ---
StraightFlushes ==
    /\ section = "straight_flush"
    /\ LET hand == sf_straights[cursor]
           bits == rank_bits(hand)
       IN  /\ flush_table' = Put(flush_table, bits, score)
           /\ entry' = Entry("flush", hand, bits, score)
    /\ score' = score + 1
    /\ IF cursor = Len(sf_straights)
       THEN section' = "four_of_a_kind" /\ cursor' = 1
       ELSE section' = section /\ cursor' = cursor + 1
    /\ UNCHANGED <<unique5_table, pairs_table, playVars>>

\* --- Four of a Kind ---
FourOfAKind ==
    /\ section = "four_of_a_kind"
    /\ LET hand == quad_hands[cursor]
           pp == prime_product(hand)
       IN  /\ pairs_table' = Put(pairs_table, pp, score)
           /\ entry' = Entry("pairs", hand, pp, score)
    /\ score' = score + 1
    /\ IF cursor = Len(quad_hands)
       THEN section' = "full_house" /\ cursor' = 1
       ELSE section' = section /\ cursor' = cursor + 1
    /\ UNCHANGED <<flush_table, unique5_table, playVars>>

\* --- Full House ---
FullHouse ==
    /\ section = "full_house"
    /\ LET hand == full_house_hands[cursor]
           pp == prime_product(hand)
       IN  /\ pairs_table' = Put(pairs_table, pp, score)
           /\ entry' = Entry("pairs", hand, pp, score)
    /\ score' = score + 1
    /\ IF cursor = Len(full_house_hands)
       THEN section' = "flush" /\ cursor' = 1
       ELSE section' = section /\ cursor' = cursor + 1
    /\ UNCHANGED <<flush_table, unique5_table, playVars>>

\* --- Flushes ---
Flushes ==
    /\ section = "flush"
    /\ LET hand == flush_hands[cursor]
           bits == rank_bits(hand)
       IN  /\ flush_table' = Put(flush_table, bits, score)
           /\ entry' = Entry("flush", hand, bits, score)
    /\ score' = score + 1
    /\ IF cursor = Len(flush_hands)
       THEN section' = "straight" /\ cursor' = 1
       ELSE section' = section /\ cursor' = cursor + 1
    /\ UNCHANGED <<unique5_table, pairs_table, playVars>>

\* --- Straights ---
Straights ==
    /\ section = "straight"
    /\ LET hand == straight_hands[cursor]
           pp == prime_product(hand)
       IN  /\ unique5_table' = Put(unique5_table, pp, score)
           /\ entry' = Entry("unique5", hand, pp, score)
    /\ score' = score + 1
    /\ IF cursor = Len(straight_hands)
       THEN section' = "three_of_a_kind" /\ cursor' = 1
       ELSE section' = section /\ cursor' = cursor + 1
    /\ UNCHANGED <<flush_table, pairs_table, playVars>>

\* --- Three of a Kind ---
ThreeOfAKind ==
    /\ section = "three_of_a_kind"
    /\ LET hand == trips_hands[cursor]
           pp == prime_product(hand)
       IN  /\ pairs_table' = Put(pairs_table, pp, score)
           /\ entry' = Entry("pairs", hand, pp, score)
    /\ score' = score + 1
    /\ IF cursor = Len(trips_hands)
       THEN section' = "two_pair" /\ cursor' = 1
       ELSE section' = section /\ cursor' = cursor + 1
    /\ UNCHANGED <<flush_table, unique5_table, playVars>>

\* --- Two Pair ---
TwoPair ==
    /\ section = "two_pair"
    /\ LET hand == two_pair_hands[cursor]
           pp == prime_product(hand)
       IN  /\ pairs_table' = Put(pairs_table, pp, score)
           /\ entry' = Entry("pairs", hand, pp, score)
    /\ score' = score + 1
    /\ IF cursor = Len(two_pair_hands)
       THEN section' = "one_pair" /\ cursor' = 1
       ELSE section' = section /\ cursor' = cursor + 1
    /\ UNCHANGED <<flush_table, unique5_table, playVars>>

\* --- One Pair ---
OnePair ==
    /\ section = "one_pair"
    /\ LET hand == one_pair_hands[cursor]
           pp == prime_product(hand)
       IN  /\ pairs_table' = Put(pairs_table, pp, score)
           /\ entry' = Entry("pairs", hand, pp, score)
    /\ score' = score + 1
    /\ IF cursor = Len(one_pair_hands)
       THEN section' = "high_card" /\ cursor' = 1
       ELSE section' = section /\ cursor' = cursor + 1
    /\ UNCHANGED <<flush_table, unique5_table, playVars>>

\* --- High Card ---: the flush hands again, keyed by prime product; after
\* the last one the tables are returned.
HighCard ==
    /\ section = "high_card"
    /\ LET hand == flush_hands[cursor]
           pp == prime_product(hand)
       IN  /\ unique5_table' = Put(unique5_table, pp, score)
           /\ entry' = Entry("unique5", hand, pp, score)
    /\ score' = score + 1
    /\ IF cursor = Len(flush_hands)
       THEN section' = "built" /\ cursor' = 0
       ELSE section' = section /\ cursor' = cursor + 1
    /\ UNCHANGED <<flush_table, pairs_table, playVars>>

NextEval ==
    \/ StraightFlushes
    \/ FourOfAKind
    \/ FullHouse
    \/ Flushes
    \/ Straights
    \/ ThreeOfAKind
    \/ TwoPair
    \/ OnePair
    \/ HighCard

SpecEval == InitEval /\ [][NextEval]_vars

\* A faulty variant of rank_to_class: the straight flush range ends one
\* score early.
rank_to_class_NineStraightFlushes(s) ==
    IF s <= 9 THEN "Straight Flush"
    ELSE IF s <= 166 THEN "Four of a Kind"
    ELSE IF s <= 322 THEN "Full House"
    ELSE IF s <= 1599 THEN "Flush"
    ELSE IF s <= 1609 THEN "Straight"
    ELSE IF s <= 2467 THEN "Three of a Kind"
    ELSE IF s <= 3325 THEN "Two Pair"
    ELSE IF s <= 6185 THEN "One Pair"
    ELSE "High Card"

rank_to_class(s) ==
    IF s <= 10 THEN "Straight Flush"
    ELSE IF s <= 166 THEN "Four of a Kind"
    ELSE IF s <= 322 THEN "Full House"
    ELSE IF s <= 1599 THEN "Flush"
    ELSE IF s <= 1609 THEN "Straight"
    ELSE IF s <= 2467 THEN "Three of a Kind"
    ELSE IF s <= 3325 THEN "Two Pair"
    ELSE IF s <= 6185 THEN "One Pair"
    ELSE "High Card"


\* ------------------------------------------------------------------------
\* The same driver at a table of three equal stacks, each able to call the
\* big blind and keep chips for the later streets
\* ------------------------------------------------------------------------

\* Chips of the seats at add_player.
EvenChips == <<3, 3, 3>>

InitEven ==
    /\ variant \in Variants
    /\ phase = "waiting"
    /\ players = [i \in SeatIdx |-> PlayerState(PidOf(i), EvenChips[i + 1])]
    /\ community_cards = <<>>
    /\ pot = 0
    /\ dealer_index = 0
    /\ current_player_index = 0
    /\ hand_number = 0
    /\ contributions = EmptyDict
    /\ all_in_amounts = EmptyDict
    /\ total = 0
    /\ deck = ShuffledDeck(0)
    /\ betting = NoBetting
    /\ result = "none"
    /\ pending_action = NoAction
    /\ action_event = FALSE
    /\ pc = "loop"
    /\ current_pid = "none"
    /\ last_event = "game_state"
    /\ last_action = NoAction
    /\ scores = EmptyDict
    /\ hand_start_total = TotalChips(players)
    /\ NoSubscribers
    /\ EvaluatorIdle
    /\ NoBots
    /\ NoSends

SpecEven == InitEven /\ [][Next]_vars


\* ------------------------------------------------------------------------
\* The driver under the scheduling of the event loop: a task that is ready
\* to run is run, a sleep or a broadcast the driver awaits returns.  No
\* client is obliged to submit anything.
\* ------------------------------------------------------------------------

\* The steps of the driver task other than RunHandStart, WakeApply and
\* Showdown.
DriverNext ==
    \/ BeginStarting
    \/ BeginBettingRound
    \/ EnterWait
    \/ WakeDrop
    \/ WakeReject
    \/ AfterAction
    \/ DealStreet
    \/ AfterWinner
    \/ NextHand
    \/ GameOver

\* The guards of RunHandStart, WakeApply and Showdown.
HandStartReady == pc = "starting"

ApplyReady ==
    /\ pc = "wait"
    /\ action_event
    /\ AcceptPending(pending_action, current_pid)
    /\ ~Rejects(players, variant, betting, pending_action.player_id,
                pending_action.action)

ShowdownReady == pc = "sleep_street" /\ phase = "river"

\* The driver task has a step to take.
DriverReady ==
    \/ ENABLED <<DriverNext>>_vars
    \/ HandStartReady
    \/ ApplyReady
    \/ ShowdownReady

\* The driver has just taken RunHandStart, WakeApply or Showdown.
DriverMoved == pc \in {"ev_hand_starting", "ev_action_taken",
                       "ev_winner_showdown"}

\* Weak fairness of the driver task as a whole: it is not ready for ever
\* without taking a step.
DriverFair ==
    /\ WF_vars(DriverNext)
    /\ \/ []<>~DriverReady
       \/ []<><<DriverNext>>_vars
       \/ []<>DriverMoved

SpecFair == Init /\ [][Next]_vars /\ DriverFair


\* ------------------------------------------------------------------------
\* The driver at a table where one seat is a bot: its actions come from the
\* task that _wait_for_action schedules, the other seats' from clients
\* ------------------------------------------------------------------------

\* The players created with is_bot = True.
BotIds == {"p1"}

InitBots ==
    /\ variant \in Variants
    /\ phase = "waiting"
    /\ players = [i \in SeatIdx |-> PlayerState(PidOf(i), StartChips[i + 1])]
    /\ community_cards = <<>>
    /\ pot = 0
    /\ dealer_index = 0
    /\ current_player_index = 0
    /\ hand_number = 0
    /\ contributions = EmptyDict
    /\ all_in_amounts = EmptyDict
    /\ total = 0
    /\ deck = ShuffledDeck(0)
    /\ betting = NoBetting
    /\ result = "none"
    /\ pending_action = NoAction
    /\ action_event = FALSE
    /\ pc = "loop"
    /\ current_pid = "none"
    /\ last_event = "game_state"
    /\ last_action = NoAction
    /\ scores = EmptyDict
    /\ hand_start_total = TotalChips(players)
    /\ NoSubscribers
    /\ EvaluatorIdle
    /\ bots = BotIds
    /\ NoSends
    /\ bot_task = "none"

\* What a client sends: an action under its own player id.
ClientSubmissions == {sub \in Submissions : sub.player_id \notin BotIds}

\* The (action, amount) pairs BotPlayer.decide can return for a seat with
\* these valid actions, whatever the equity and the difficulty, and the FOLD
\* that _schedule_bot_action submits when deciding raises an exception.
bot_decisions(valid) ==
    {[action |-> "fold", amount |-> 0]}
      \cup (IF valid.can_check
            THEN {[action |-> "check", amount |-> 0]}
            ELSE {[action |-> "call", amount |-> valid.call_amount]})
      \cup (IF valid.can_raise
            THEN {[action |-> "raise",
                   amount |-> Min(Max(t, valid.min_raise), valid.max_raise)]
                     : t \in RaiseAmounts}
            ELSE {})

\* _schedule_bot_action after its sleep: decide on the state as it is now
\* and submit; nothing is submitted when no betting round is running or the
\* seat is gone.
BotSubmit ==
    /\ bot_task # "none"
    /\ LET i == player_index(players, bot_task) IN
       IF betting.active /\ i # -1
       THEN /\ \E d \in bot_decisions(
                           get_valid_actions(players, variant, betting, i)) :
                  pending_action' = [player_id |-> bot_task,
                                     action |-> d.action,
                                     amount |-> d.amount]
            /\ action_event' = TRUE
       ELSE UNCHANGED <<pending_action, action_event>>
    /\ bot_task' = "none"
    /\ UNCHANGED <<gameVars, potVars, deck, betting, result, pc, current_pid,
                   last_event, last_action, scores, hand_start_total,
                   netVars, evalVars, bots, sinkVars>>

NextBots ==
    \/ BeginStarting
    \/ RunHandStart
    \/ BeginBettingRound
    \/ EnterWait
    \/ \E sub \in ClientSubmissions : SubmitAction(sub)
    \/ BotSubmit
    \/ WakeDrop
    \/ WakeReject
    \/ WakeApply
    \/ AfterAction
    \/ DealStreet
    \/ Showdown
    \/ AfterWinner
    \/ NextHand
    \/ GameOver

\* The event loop runs the driver task and the bot's task when they are
\* ready; clients submit when they like, or never.
SpecBots == InitBots /\ [][NextBots]_vars /\ DriverFair /\ WF_vars(BotSubmit)


\* ------------------------------------------------------------------------
\* The driver with seats that answer their prompts: while the driver waits,
\* the prompted seat, and only it, submits an action apply_action accepts
\* ------------------------------------------------------------------------

\* The stacks of the tables the hands are played at.
TurnChips == {StartChips, DeepChips, EvenChips}

InitTurns ==
    /\ variant \in Variants
    /\ phase = "waiting"
    /\ \E chips \in TurnChips :
          players = [i \in SeatIdx |-> PlayerState(PidOf(i), chips[i + 1])]
    /\ community_cards = <<>>
    /\ pot = 0
    /\ dealer_index = 0
    /\ current_player_index = 0
    /\ hand_number = 0
    /\ contributions = EmptyDict
    /\ all_in_amounts = EmptyDict
    /\ total = 0
    /\ deck = ShuffledDeck(0)
    /\ betting = NoBetting
    /\ result = "none"
    /\ pending_action = NoAction
    /\ action_event = FALSE
    /\ pc = "loop"
    /\ current_pid = "none"
    /\ last_event = "game_state"
    /\ last_action = NoAction
    /\ scores = EmptyDict
    /\ hand_start_total = TotalChips(players)
    /\ NoSubscribers
    /\ EvaluatorIdle
    /\ NoBots
    /\ NoSends

\* submit_action by the prompted seat, with an action that apply_action
\* accepts, while the driver waits for it.
SubmitTurn ==
    /\ pc = "wait"
    /\ \E sub \in Submissions :
          /\ sub.player_id = current_pid
          /\ ~Rejects(players, variant, betting, sub.player_id, sub.action)
          /\ pending_action' = sub
    /\ action_event' = TRUE
    /\ UNCHANGED <<gameVars, potVars, deck, betting, result, pc, current_pid,
                   last_event, last_action, scores, hand_start_total,
                   netVars, evalVars, botVars, sinkVars>>

NextTurns ==
    \/ BeginStarting
    \/ RunHandStart
    \/ BeginBettingRound
    \/ EnterWait
    \/ SubmitTurn
    \/ WakeApply
    \/ AfterAction
    \/ DealStreet
    \/ Showdown
    \/ AfterWinner
    \/ NextHand
    \/ GameOver

\* The event loop runs the driver when it is ready, and a prompted seat
\* sends its action in the end.
SpecTurns ==
    InitTurns /\ [][NextTurns]_vars /\ DriverFair /\ WF_vars(SubmitTurn)


\* ------------------------------------------------------------------------
\* The broadcast sink (app/managers/connection_manager.py) with its writers:
\* the driver's broadcasts, and each websocket handler's game_state
\* snapshot, chat relay and pong (app/api/websocket.py), each send in
\* progress from its call to the return of the await that made it
\* ------------------------------------------------------------------------

\* Chips of the two seats at add_player: the blinds put both seats all-in.
SinkChips == <<1, 1>>

InitSink ==
    /\ variant \in Variants
    /\ phase = "waiting"
    /\ players = [i \in 0 .. (Len(SinkChips) - 1) |->
                     PlayerState(PidOf(i), SinkChips[i + 1])]
    /\ community_cards = <<>>
    /\ pot = 0
    /\ dealer_index = 0
    /\ current_player_index = 0
    /\ hand_number = 0
    /\ contributions = EmptyDict
    /\ all_in_amounts = EmptyDict
    /\ total = 0
    /\ deck = ShuffledDeck(0)
    /\ betting = NoBetting
    /\ result = "none"
    /\ pending_action = NoAction
    /\ action_event = FALSE
    /\ pc = "loop"
    /\ current_pid = "none"
    /\ last_event = "game_state"
    /\ last_action = NoAction
    /\ scores = EmptyDict
    /\ hand_start_total = TotalChips(players)
    /\ members = {players[i].player_id : i \in DOMAIN players}
    /\ connections = {}
    /\ handler = [s \in Subscribers |-> "closed"]
    /\ inbox = [s \in Subscribers |-> EmptyBox]
    /\ EvaluatorIdle
    /\ NoBots
    /\ NoSends

\* ConnectionManager.connect after the handshake, then send_personal up to
\* its `await ws.send_json`: the socket is registered and the write of the
\* game_state snapshot is in progress.
SendSnapshot(s) ==
    /\ Suspended
    /\ handler[s] = "accepting"
    /\ handler' = [handler EXCEPT ![s] = "snapshot"]
    /\ connections' = connections \cup {s}
    /\ inbox' = [inbox EXCEPT
                    ![s] = Received(@, "game_state", [type |-> "game_state"])]
    /\ sending' = sending \cup {[to |-> s, from |-> s]}
    /\ UNCHANGED <<gameVars, potVars, deck, betting, result, pending_action,
                   action_event, pc, current_pid, last_event, last_action,
                   scores, hand_start_total, members, evalVars, botVars>>

\* The handler received a chat message: broadcast_personalized up to its
\* gather, with a payload for every registered subscriber.
Chat(s) ==
    /\ Suspended
    /\ handler[s] = "open"
    /\ handler' = [handler EXCEPT ![s] = "chat"]
    /\ LET sent == broadcast_personalized(
                       connections, [c \in Subscribers |-> [type |-> "chat"]])
       IN  /\ inbox' = [c \in DOMAIN inbox |->
                           IF c \in DOMAIN sent
                           THEN Received(inbox[c], "chat", sent[c])
                           ELSE inbox[c]]
           /\ sending' = sending \cup
                             {[to |-> c, from |-> s] : c \in DOMAIN sent}
    /\ UNCHANGED <<gameVars, potVars, deck, betting, result, pending_action,
                   action_event, pc, current_pid, last_event, last_action,
                   scores, hand_start_total, members, connections, evalVars,
                   botVars>>

\* The handler received a ping: `await websocket.send_json` of the pong on
\* its own socket.
Ping(s) ==
    /\ Suspended
    /\ handler[s] = "open"
    /\ handler' = [handler EXCEPT ![s] = "pong"]
    /\ inbox' = [inbox EXCEPT ![s] = Received(@, "pong", [type |-> "pong"])]
    /\ sending' = sending \cup {[to |-> s, from |-> s]}
    /\ UNCHANGED <<gameVars, potVars, deck, betting, result, pending_action,
                   action_event, pc, current_pid, last_event, last_action,
                   scores, hand_start_total, members, connections, evalVars,
                   botVars>>

\* The await of the handler returned (the snapshot, the gather of a chat
\* relay, or the pong): the handler waits in receive_json.
Receive(s) ==
    /\ Suspended
    /\ handler[s] \in {"snapshot", "chat", "pong"}
    /\ handler' = [handler EXCEPT ![s] = "open"]
    /\ sending' = Returned(sending, s)
    /\ UNCHANGED <<gameVars, potVars, deck, betting, result, pending_action,
                   action_event, pc, current_pid, last_event, last_action,
                   scores, hand_start_total, members, connections, inbox,
                   evalVars, botVars>>

NextSink ==
    \/ BeginStarting
    \/ RunHandStart
    \/ BeginBettingRound
    \/ DealStreet
    \/ Showdown
    \/ AfterWinner
    \/ NextHand
    \/ GameOver
    \/ \E s \in Visitors : Accept(s)
    \/ \E s \in Visitors : SendSnapshot(s)
    \/ \E s \in Visitors : Chat(s)
    \/ \E s \in Visitors : Ping(s)
    \/ \E s \in Visitors : Receive(s)

SpecSink == InitSink /\ [][NextSink]_vars


\* ------------------------------------------------------------------------
\* Properties
\* ------------------------------------------------------------------------

InitialTotal == SumOver(1 .. NumSeats, StartChips)

\* The step is the driver applying a claimed action (WakeApply).
Applied == pc = "wait" /\ pc' = "ev_action_taken"

\* The seat index of the player whose action the step applies.
Actor == player_index(players, pending_action.player_id)

\* C1: after every completed hand the chips of the seats sum to the starting
\* total and the pot is 0.
C1_CompletedHandConservesChips ==
    pc = "ev_hand_over" => (TotalChips(players) = InitialTotal /\ pot = 0)

\* C2: at every event of a hand before its winner event, the chips of the
\* seats plus the pot equal the chips plus pot with which the hand began.
C2_ChipsPlusPotConstant ==
    last_event \in {"hand_starting", "your_turn", "action_taken",
                    "community_card"}
        => TotalChips(players) + pot = hand_start_total

\* C2 witness: a raise has been applied on top of the posted blinds.
C2_Witness ==
    /\ last_event = "action_taken"
    /\ last_action.action = "raise"
    /\ pot > small_blind + big_blind
    /\ TotalChips(players) < InitialTotal

PotAmounts(pots) == SumOver(1 .. Len(pots), [k \in 1 .. Len(pots) |-> pots[k].amount])

\* C3: for every ledger and every active set the amounts of the side pots
\* sum to the total of the contributions, and no pot has amount 0.
C3_SidePotsSumToLedger ==
    \A active_ids \in SUBSET PlayerIds :
        LET pots == calculate_side_pots(Ledger, active_ids) IN
        /\ PotAmounts(pots) = SumOver(DOMAIN contributions, contributions)
        /\ \A k \in 1 .. Len(pots) : pots[k].amount # 0

\* C3 witness: a ledger with two different all-in caps and chips above both.
C3_Witness ==
    /\ Len(calculate_side_pots(Ledger, PlayerIds)) = 3
    /\ Cardinality(DOMAIN all_in_amounts) = 2

\* C4: in every pot made for an all-in cap k a seat is eligible iff it is
\* active and its total contribution is at least k.
C4_EligibleIffActiveAndReachedCap ==
    \A active_ids \in SUBSET PlayerIds :
        LET pots == calculate_side_pots(Ledger, active_ids) IN
        \A k \in 1 .. Len(pots) :
            pots[k].cap # 0 =>
                \A pid \in PlayerIds :
                    pid \in pots[k].eligible
                        <=> /\ pid \in active_ids
                            /\ get_contribution(contributions, pid) >= pots[k].cap

WithHoles(ps, holes) ==
    [i \in DOMAIN ps |-> [ps[i] EXCEPT !.hole_cards = holes[i]]]

\* The seats with the hand of every seat other than viewer_id replaced by
\* two cards nobody holds (the top of the deck).
OtherHands(viewer_id) ==
    WithHoles(players,
              [i \in DOMAIN players |->
                  IF /\ players[i].player_id # viewer_id
                     /\ players[i].hole_cards # <<>>
                  THEN <<deck[1], deck[2]>>
                  ELSE players[i].hole_cards])

\* C5: a snapshot built for P shows P's own hole cards, shows every other
\* seat's hole cards as "??" only, and is the same whatever cards the other
\* seats hold, in every phase.
C5_SnapshotHidesOtherHands ==
    \A viewer_id \in PlayerIds \cup {"spectator"} :
        LET pay == state_payload_factory(viewer_id) IN
        /\ \A i \in DOMAIN players :
              LET shown == pay.players[i].hole_cards
                  hole == players[i].hole_cards
              IN  /\ Len(shown) = Len(hole)
                  /\ \A k \in 1 .. Len(hole) :
                        shown[k] = IF players[i].player_id = viewer_id
                                   THEN CardStr(hole[k]) ELSE "??"
        /\ state_payload(OtherHands(viewer_id), viewer_id, phase,
                         community_cards, pot, hand_number, dealer_index,
                         current_player_index, variant) = pay

\* C5 witness: the phase is showdown and two seats still hold their cards.
C5_Witness ==
    /\ phase = "showdown"
    /\ Cardinality({i \in DOMAIN players :
                       Len(players[i].hole_cards) = 2 /\ ~players[i].is_folded}) >= 2

\* C6: the driver applies an action only of the player it last prompted,
\* who is the seat at current_player_index.
C6_TurnOwnership ==
    [][Applied =>
          /\ last_action'.player_id = current_pid
          /\ last_event = "your_turn"
          /\ current_player_index \in DOMAIN players
          /\ players[current_player_index].player_id = last_action'.player_id
          /\ \A i \in DOMAIN players :
                players[i].player_id # current_pid => players'[i] = players[i]
      ]_vars

\* C6 witness: an action has been applied after its player was prompted.
C6_Witness ==
    /\ pc = "ev_action_taken"
    /\ last_action.player_id = current_pid
    /\ last_action.action = "call"

\* C7: while the expected actor's action waits unclaimed in the slot, no
\* submission of another player displaces it.
C7_WrongActorSubmissionDropped ==
    [][(/\ pc = "wait"
        /\ pc' = "wait"
        /\ AcceptPending(pending_action, current_pid))
          => AcceptPending(pending_action', current_pid)]_vars

\* C8: no submitted action ends the driver with an error.
C8_DriverNeverFails == pc # "crashed"

\* C9: an ALL_IN whose total does not exceed the current bet commits the
\* seat's chips and leaves current_bet, last_raise_size, the raise count and
\* the acted status of the other seats unchanged.
C9_AllInBelowBetIsCall ==
    [][(/\ Applied
        /\ pending_action.action = "all_in"
        /\ players[Actor].chips + players[Actor].bet <= betting.current_bet)
          => /\ players'[Actor].chips = 0
             /\ players'[Actor].is_all_in
             /\ betting'.current_bet = betting.current_bet
             /\ betting'.last_raise_size = betting.last_raise_size
             /\ betting'.num_raises = betting.num_raises
             /\ betting'.players_acted \ {pending_action.player_id}
                  = betting.players_acted \ {pending_action.player_id}
      ]_vars

\* C10: in no-limit a raise or all-in above current_bet and below min_raise
\* leaves every other seat of the acted-set in it.
C10_ShortAllInKeepsActedSet ==
    [][(/\ Applied
        /\ variant = "no_limit"
        /\ pending_action.action \in {"raise", "all_in"}
        /\ players'[Actor].bet > betting.current_bet
        /\ players'[Actor].bet
             < get_valid_actions(players, variant, betting, Actor).min_raise)
          => (betting.players_acted \ {pending_action.player_id})
                \subseteq betting'.players_acted
      ]_vars


\* The seats still in the hand that are not all-in.
CanAct(ps) == {i \in active_players(ps) : ~ps[i].is_all_in}

\* C11: after every applied action the result is ALL_FOLDED iff one seat
\* remains in the hand; otherwise ROUND_COMPLETE iff no remaining seat can
\* act or every seat able to act is in the acted-set with bet = current_bet;
\* otherwise CONTINUE.  So when a street ends with ROUND_COMPLETE every seat
\* able to act has a street bet equal to current_bet.
C11_RoundResult ==
    [][Applied =>
          LET settled == \A i \in CanAct(players') :
                            /\ players'[i].player_id \in betting'.players_acted
                            /\ players'[i].bet = betting'.current_bet
          IN  /\ result' = "all_folded"
                    <=> Cardinality(active_players(players')) = 1
              /\ result' = "round_complete"
                    <=> /\ Cardinality(active_players(players')) # 1
                        /\ (CanAct(players') = {} \/ settled)
              /\ result' \in {"all_folded", "round_complete", "continue"}
              /\ result' = "round_complete"
                    => \A i \in CanAct(players') :
                          players'[i].bet = betting'.current_bet
      ]_vars


\* C12: after blind posting and after every applied action each seat's
\* total_bet equals its contribution in the pot manager's ledger, and the
\* ledger total equals the sum of total_bet over the seats.
C12_LedgerMatchesTotalBet ==
    /\ \A i \in DOMAIN players :
          players[i].total_bet
              = get_contribution(contributions, players[i].player_id)
    /\ total = SumOver(DOMAIN players,
                       [i \in DOMAIN players |-> players[i].total_bet])

\* C12 witness: a raise on a street after the flop has been applied and
\* synced, on top of what the seat put in before.
C12_Witness ==
    /\ pc = "ev_action_taken"
    /\ phase \in {"flop", "turn", "river"}
    /\ last_action.action \in {"raise", "all_in"}
    /\ \E i \in DOMAIN players :
          /\ players[i].player_id = last_action.player_id
          /\ players[i].bet > 0
          /\ players[i].total_bet > players[i].bet


\* The step is a call of apply_action on the round alone that returned.
BetApplied == pc = "betting_round" /\ last_event' = "applied"

\* The step is a call of apply_action on the round alone that raised.
BetRejected == pc = "betting_round" /\ last_event' = "rejected"

\* C13: an action that apply_action rejects leaves every seat, the pot, the
\* current actor index and the round's current_bet, last_raise_size, raise
\* count and acted-set unchanged.
C13_RejectedActionMutatesNothing ==
    [][BetRejected =>
          /\ players' = players
          /\ pot' = pot
          /\ current_player_index' = current_player_index
          /\ betting' = betting
          /\ result' = result
      ]_vars

\* C13 witness: a RAISE was rejected in a round in which chips had moved.
C13_Witness ==
    /\ last_event = "rejected"
    /\ last_action.action = "raise"
    /\ last_action.player_id # UnknownId
    /\ betting.num_raises > 0


\* The step is the award of the pot, at the showdown or to the last seat
\* left after the others folded.
Awarded ==
    /\ pc \notin {"ev_winner_fold", "ev_winner_showdown"}
    /\ pc' \in {"ev_winner_fold", "ev_winner_showdown"}

ActiveIds(ps) == {ps[i].player_id : i \in active_players(ps)}

\* C14: a seat that folded is in no side pot's eligible set and its chips
\* do not increase at the award, on the showdown and on the all-fold path,
\* while the pot amounts still hold its contributions.
C14_FoldedSeatWinsNothing ==
    [][Awarded =>
          LET pots == calculate_side_pots(Ledger, ActiveIds(players)) IN
          /\ \A i \in DOMAIN players :
                players[i].is_folded =>
                    /\ players'[i].chips <= players[i].chips
                    /\ \A k \in 1 .. Len(pots) :
                          players[i].player_id \notin pots[k].eligible
          /\ PotAmounts(pots) = SumOver(DOMAIN contributions, contributions)
      ]_vars

\* C14 witness: the showdown awarded the pots of a hand in which a seat had
\* folded after putting chips in.
C14_Witness ==
    /\ pc = "ev_winner_showdown"
    /\ \E i \in DOMAIN players :
          /\ players[i].is_folded
          /\ get_contribution(contributions, players[i].player_id) > 0


\* The lowest score among the seats of S.
BestScore(ps, sc, S) == MinOf({sc[ps[i].player_id] : i \in S})

\* What the rule of the showdown gives seat i from pot sp: nothing unless i
\* is eligible with the lowest score among the eligible seats; else an even
\* share, plus the remainder for the winner with the lowest seat index.
DueFromPot(ps, sc, sp, i) ==
    LET eligible == {j \in active_players(ps) : ps[j].player_id \in sp.eligible}
        winners == {j \in eligible : sc[ps[j].player_id] = BestScore(ps, sc, eligible)}
    IN  IF eligible = {} \/ i \notin winners THEN 0
        ELSE (sp.amount \div Cardinality(winners))
                + (IF \A j \in winners : i <= j
                   THEN sp.amount % Cardinality(winners) ELSE 0)

\* C15: at showdown each side pot goes only to the eligible seats with the
\* minimum score, split evenly with the remainder to the winner of lowest
\* seat index, and the awards of each pot sum to exactly its amount.
C15_PotsSplitAmongBestHands ==
    [][(pc = "sleep_street" /\ pc' = "ev_winner_showdown") =>
          LET pots == ShowdownPots(players, Ledger, pot) IN
          /\ \A i \in DOMAIN players :
                players'[i].chips = players[i].chips
                    + SumOver(1 .. Len(pots),
                              [k \in 1 .. Len(pots) |->
                                  DueFromPot(players, scores', pots[k], i)])
          /\ \A k \in 1 .. Len(pots) :
                SumOver(DOMAIN players,
                        [i \in DOMAIN players |->
                            DueFromPot(players, scores', pots[k], i)])
                    = pots[k].amount
      ]_vars


\* Whether seat i is not folded, not sitting out and has chips.
LiveSeat(ps, i) ==
    /\ ~ps[i].is_folded
    /\ ~ps[i].is_sitting_out
    /\ ps[i].chips > 0

\* The number of seats passed going clockwise from seat `from` to seat i
\* (1 for the next seat, the number of seats for `from` itself).
Clockwise(ps, from, i) ==
    LET n == Cardinality(DOMAIN ps) IN
    IF i = from THEN n ELSE (i - from + n) % n

\* C16: on the flop, turn and river the first seat to act is the first seat
\* clockwise from the dealer that is not folded, not sitting out and has
\* chips.
C16_PostflopFirstToActSkipsFolded ==
    [][(pc = "ev_community" /\ pc' # pc) =>
          \A i \in DOMAIN players :
              (/\ LiveSeat(players, i)
               /\ \A j \in DOMAIN players :
                     LiveSeat(players, j) =>
                         Clockwise(players, dealer_index, i)
                             <= Clockwise(players, dealer_index, j))
                  => current_player_index' = i
      ]_vars


\* Whether seat i has chips and is not sitting out.
CanPost(ps, i) == ~ps[i].is_sitting_out /\ ps[i].chips > 0

\* The first seat clockwise from seat `from` that has chips and is not
\* sitting out.
NextPoster(ps, from) ==
    CHOOSE i \in DOMAIN ps :
        /\ CanPost(ps, i)
        /\ \A j \in DOMAIN ps :
              CanPost(ps, j) => Clockwise(ps, from, i) <= Clockwise(ps, from, j)

\* The seat that is to post the small blind once the button is at `dealer`.
SmallBlindSeat(ps, dealer) ==
    IF Cardinality({i \in DOMAIN ps : CanPost(ps, i)}) = 2 THEN dealer
    ELSE NextPoster(ps, dealer)

BigBlindSeat(ps, dealer) == NextPoster(ps, SmallBlindSeat(ps, dealer))

\* The step is the start of a hand (_run_hand up to hand_starting).
HandStarted == pc = "starting" /\ pc' = "ev_hand_starting"

C18_ShortBlindPost ==
    [][HandStarted =>
          LET sb == SmallBlindSeat(players, dealer_index')
              bb == BigBlindSeat(players, dealer_index')
              Short(i, blind) ==
                  players[i].chips <= blind =>
                      /\ players'[i].bet = players[i].chips
                      /\ players'[i].total_bet = players[i].chips
                      /\ players'[i].chips = 0
                      /\ players'[i].is_all_in
                      /\ players[i].player_id \in DOMAIN contributions'
                      /\ contributions'[players[i].player_id] = players[i].chips
                      /\ players[i].player_id \in DOMAIN all_in_amounts'
                      /\ all_in_amounts'[players[i].player_id] = players[i].chips
          IN  /\ Short(sb, small_blind)
              /\ Short(bb, big_blind)
              /\ \A i \in DOMAIN players : players'[i].chips >= 0
      ]_vars

\* C18 witness: the big blind was posted by a seat that held less than the
\* big blind and is now all-in with that amount as its cap.
C18_Witness ==
    /\ pc = "ev_hand_starting"
    /\ \E i \in DOMAIN players :
          /\ players[i].is_all_in
          /\ players[i].chips = 0
          /\ players[i].bet = 1
          /\ players[(i + 2) % NumSeats].bet = small_blind
          /\ players[i].player_id \in DOMAIN all_in_amounts
          /\ all_in_amounts[players[i].player_id] = 1


\* C19: in fixed-limit no street sees more than four raises: once four
\* raises have been made can_raise is false for every seat and no later
\* action increases current_bet or the raise count.
C19_FixedLimitRaiseCap ==
    [][(BetApplied /\ variant = "fixed_limit") =>
          /\ betting'.num_raises <= FLHE_MAX_RAISES
          /\ betting.num_raises >= FLHE_MAX_RAISES =>
                /\ \A i \in DOMAIN players :
                      ~get_valid_actions(players, variant, betting, i).can_raise
                /\ betting'.current_bet <= betting.current_bet
                /\ betting'.num_raises = betting.num_raises
      ]_vars


\* The card tokens a winner payload holds in hole_cards fields.
RevealedCards(payload) ==
    UNION ({ {w.hole_cards[k] : k \in 1 .. Len(w.hole_cards)} :
               w \in {payload.winners[n] : n \in
                         {m \in 1 .. Len(payload.winners) :
                             "hole_cards" \in DOMAIN payload.winners[m]}} }
           \cup
           { {payload.all_hands[pid].hole_cards[k] :
                 k \in 1 .. Len(payload.all_hands[pid].hole_cards)} :
               pid \in DOMAIN payload.all_hands })

\* C20: the winner event of a showdown reveals hole cards only of seats
\* that did not fold, and the winner event of a hand that ended because all
\* but one seat folded reveals no hole cards.
C20_WinnerRevealsOnlyShowdownHands ==
    [][
        /\ (pc = "sleep_street" /\ pc' = "ev_winner_showdown") =>
              (LET payload == showdown_winner_payload(
                                  players, community_cards,
                                  ShowdownPots(players, Ledger, pot), scores')
               IN  /\ \A i \in DOMAIN players :
                         players[i].is_folded =>
                             /\ players[i].player_id
                                    \notin DOMAIN payload.all_hands
                             /\ \A k \in 1 .. Len(players[i].hole_cards) :
                                   CardStr(players[i].hole_cards[k])
                                       \notin RevealedCards(payload)
                   /\ \A n \in 1 .. Len(payload.winners) :
                         \E i \in active_players(players) :
                             players[i].player_id
                                 = payload.winners[n].player_id)
        /\ (pc = "ev_action_taken" /\ pc' = "ev_winner_fold") =>
              (RevealedCards(last_remaining_winner_payload(
                                 players', community_cards, pot)) = {})
      ]_vars

\* C20 witness: a showdown was reached by two seats while a third, holding
\* two cards, had folded.
C20_Witness ==
    /\ pc = "ev_winner_showdown"
    /\ \E i \in DOMAIN players :
          players[i].is_folded /\ Len(players[i].hole_cards) = 2
    /\ Cardinality(active_players(players)) = 2

\* C20, all-fold path witness: the pot went to the last seat left.
C20_FoldWitness == pc = "ev_winner_fold"


\* The chips the match began with.
MatchTotal == SumOver(1 .. NumSeats, MatchChips)

\* The positions of the driver inside _run_hand, after the hand's start.
InHand == {"ev_hand_starting", "ev_your_turn", "wait", "ev_action_taken",
           "sleep_street", "ev_community", "ev_winner_fold",
           "ev_winner_showdown"}

\* Seat i ended an earlier hand with 0 chips and was marked by the game loop.
Busted(i) ==
    /\ hand_number >= 1
    /\ pc \notin InHand
    /\ players[i].chips = 0
    /\ players[i].is_sitting_out

\* Seat i sits out the running hand.
SitsOut(i) == players[i].is_sitting_out /\ pc \in InHand

\* What C24 says of seat i on one step: once busted it stays out of every
\* later hand, with no cards, no blind, no button and no prompt.
StaysOut(i) ==
    /\ Busted(i) =>
          /\ players'[i].is_sitting_out
          /\ players'[i].chips = 0
          /\ HandStarted =>
                /\ players'[i].hole_cards = <<>>
                /\ players'[i].bet = 0
                /\ players'[i].total_bet = 0
                /\ dealer_index' # i
    /\ SitsOut(i) =>
          /\ players'[i].is_sitting_out
          /\ players'[i].chips = 0
          /\ players'[i].hole_cards = <<>>
          /\ players'[i].bet = 0
          /\ (pc' = "ev_your_turn" => current_pid' # players[i].player_id)
          /\ current_player_index' # i

\* The step ends a hand that a busted seat sat out.
EndsHandAfterBust ==
    /\ pc \in InHand
    /\ pc' = "ev_hand_over"
    /\ hand_number >= 2
    /\ \E i \in DOMAIN players : players[i].is_sitting_out

\* The seat part of C24 alone.
BustedSeatStaysOut == [][\A i \in DOMAIN players : StaysOut(i)]_vars

\* C24: a seat that ends a hand with 0 chips sits out every later hand (no
\* hole cards, no blind, never the dealer, never prompted), and the chips of
\* the seats still sum to the chips the match began with when such a later
\* hand ends.
C24_BustedSeatSitsOutChipsConserved ==
    [][/\ \A i \in DOMAIN players : StaysOut(i)
       /\ EndsHandAfterBust =>
             (TotalChips(players') = MatchTotal /\ pot' = 0)
      ]_vars


\* C25: the first hand_starting event carries hand_number 1, and hand_number
\* grows by exactly 1 from each hand_starting event to the next: it changes
\* on the step that starts a hand and on no other.
C25_HandNumberSequential ==
    /\ hand_number = 0
    /\ [][IF HandStarted THEN hand_number' = hand_number + 1
          ELSE hand_number' = hand_number]_vars

\* C25 witness: the second hand of a match has been announced.
C25_Witness ==
    /\ pc = "ev_hand_starting"
    /\ last_event = "hand_starting"
    /\ hand_number = 2


\* The first seat able to act going clockwise from the seat after `from`
\* round to `from` itself, or -1 when no seat is able to act.
NextAbleSeat(ps, from) ==
    IF CanAct(ps) = {} THEN -1
    ELSE CHOOSE i \in CanAct(ps) :
            \A j \in CanAct(ps) :
                Clockwise(ps, from, i) <= Clockwise(ps, from, j)

\* C29: after each applied action the current actor index is the next seat
\* clockwise from the seat that acted that is neither folded nor all-in nor
\* sitting out, or -1 when there is none; and the seat prompted next in the
\* street is that seat, so no seat able to act is passed over.
C29_ActorAdvancesClockwise ==
    [][/\ Applied =>
             current_player_index'
                 = NextAbleSeat(players',
                                player_index(players, last_action'.player_id))
       /\ (pc = "ev_action_taken" /\ pc' = "ev_your_turn") =>
             current_pid'
                 = players[NextAbleSeat(
                               players,
                               player_index(players, last_action.player_id))
                          ].player_id
      ]_vars

\* C29 witness: an action was applied and the index moved past a seat that
\* cannot act, to a seat that is not the one after the actor.
C29_Witness ==
    /\ pc = "ev_action_taken"
    /\ current_player_index # -1
    /\ LET a == player_index(players, last_action.player_id)
           n == Cardinality(DOMAIN players)
       IN  /\ current_player_index # (a + 1) % n
           /\ current_player_index # a
           /\ ~(((a + 1) % n) \in CanAct(players))


\* The seats as they were before the blinds of the hand were posted: each
\* seat's chips with its blind put back (no action has been applied yet).
BeforeBlinds(ps) ==
    [i \in DOMAIN ps |-> [ps[i] EXCEPT !.chips = @ + ps[i].total_bet]]

\* C30: preflop betting starts at the first seat able to act clockwise after
\* the seat that posted the big blind in that hand, for every number of
\* seats and also when a blind seat went all-in by posting its blind.
C30_PreflopStartsAfterBigBlind ==
    [][(pc = "ev_hand_starting" /\ pc' # pc) =>
          current_player_index'
              = NextAbleSeat(players,
                             BigBlindSeat(BeforeBlinds(players), dealer_index))
      ]_vars


\* C21: every your_turn event is delivered only to the subscriber whose id
\* equals the prompted actor: a subscriber's socket never carries a your_turn
\* payload (the valid actions) made for another seat.
C21_YourTurnOnlyToActor ==
    \A s \in Subscribers : inbox[s].turn_of \in {"none", s}

\* C21 witness: the actor and another subscriber are both connected when a
\* your_turn is broadcast; the actor's socket carries it, the other's socket
\* still ends with the event before it.
C21_Witness ==
    /\ pc = "ev_your_turn"
    /\ \E a \in connections, o \in connections :
          /\ a = current_pid
          /\ o # a
          /\ inbox[a].last = "your_turn"
          /\ inbox[a].turn_of = a
          /\ inbox[o].last = "hand_starting"
          /\ inbox[o].turn_of = "none"


\* C26: a subscriber that connects, also while a hand is in progress,
\* receives a game_state snapshot as its first event: no event broadcast by
\* the driver reaches its socket before the snapshot.
C26_SnapshotIsFirstEvent ==
    \A s \in Subscribers : inbox[s].first \in {"none", "game_state"}

\* C26 witness: a subscriber connected while a hand was in progress, got the
\* snapshot first and a broadcast of the driver after it; another handler
\* is between the handshake and its registration during that broadcast.
C26_Witness ==
    /\ pc \in InHand
    /\ \E s \in connections, o \in Visitors :
          /\ handler[s] = "open"
          /\ inbox[s].first = "game_state"
          /\ inbox[s].last = "action_taken"
          /\ handler[o] = "accepting"
          /\ inbox[o] = EmptyBox


\* The step adds a seat for a new player (join_game).
Joined == Cardinality(DOMAIN players') > Cardinality(DOMAIN players)

\* C22: a seat can be added only while the phase is waiting or hand_over: a
\* join while a hand is in progress adds no seat that counts as a non-folded
\* seat of that hand, and no seat that was not dealt into the hand is
\* prompted.
C22_NoSeatAddedMidHand ==
    [][/\ (Joined /\ pc \in InHand) =>
             active_players(players') = active_players(players)
       /\ (pc' = "ev_your_turn" /\ pc # pc') =>
             players'[player_index(players', current_pid')].hole_cards # <<>>
      ]_vars


\* The step is taken by the driver task: its position moves, or it clears
\* the awaited event and waits again.
DriverStep == pc' # pc \/ (action_event /\ ~action_event')

\* C23: single writer: every step that is not the driver's (a join, a
\* websocket connect or disconnect, an action submission) leaves the game
\* state, the betting round and the pot manager as they are; it changes at
\* most the pending action and the subscribers.
C23_OnlyDriverMutatesGame ==
    [][~DriverStep => UNCHANGED <<gameVars, potVars, betting>>]_vars

\* The step ends a hand: the game loop broadcasts hand_over.
HandEnded == pc' = "ev_hand_over" /\ pc # "ev_hand_over"

\* The step broadcasts a winner event.
WinnerEmitted ==
    /\ pc' \in {"ev_winner_fold", "ev_winner_showdown"}
    /\ pc \notin {"ev_winner_fold", "ev_winner_showdown"}

\* Every seat was dealt into the hand in progress or sits out: no seat was
\* added since the hand began.
NoSeatJoinedMidHand ==
    \A i \in DOMAIN players :
        players[i].hole_cards # <<>> \/ players[i].is_sitting_out

\* C28: every hand emits exactly one winner event, after its last
\* action_taken and before its hand_over: hand_over follows a winner event
\* directly, a winner event follows the end of a betting round, and after a
\* winner event the driver's next event is hand_over; also when a seat is
\* removed during the hand (hands that a seat joined midway are left aside).
C28_OneWinnerBeforeHandOver ==
    [][/\ (HandEnded /\ NoSeatJoinedMidHand) =>
             (pc \in {"ev_winner_fold", "ev_winner_showdown"}
                 /\ last_event = "winner")
       /\ WinnerEmitted =>
             (pc \in {"ev_action_taken", "sleep_street"}
                 /\ last_event' = "winner")
       /\ (pc \in {"ev_winner_fold", "ev_winner_showdown"} /\ pc' # pc) =>
             HandEnded
      ]_vars


\* The class of a 5-card hand from its ranks and whether its cards share a
\* suit, by the rules of poker.
HandCategory(hand, suited) ==
    LET rs == {hand[j] : j \in DOMAIN hand}
        count(r) == Cardinality({j \in DOMAIN hand : hand[j] = r})
        most == CHOOSE m \in 1 .. 5 :
                    /\ \E r \in rs : count(r) = m
                    /\ \A r \in rs : count(r) <= m
        lo == CHOOSE r \in rs : \A q \in rs : r <= q
        hi == CHOOSE r \in rs : \A q \in rs : r >= q
        run == hi - lo = 4 \/ rs = {14, 2, 3, 4, 5}
        kinds == Cardinality(rs)
    IN  IF kinds = 5
        THEN IF run /\ suited THEN "Straight Flush"
             ELSE IF suited THEN "Flush"
             ELSE IF run THEN "Straight"
             ELSE "High Card"
        ELSE IF most = 4 THEN "Four of a Kind"
        ELSE IF most = 3 /\ kinds = 2 THEN "Full House"
        ELSE IF most = 3 THEN "Three of a Kind"
        ELSE IF kinds = 3 THEN "Two Pair"
        ELSE "One Pair"

\* The score range of each class: <<first, last>>.
ClassRange ==
    [c \in {"Straight Flush", "Four of a Kind", "Full House", "Flush",
            "Straight", "Three of a Kind", "Two Pair", "One Pair",
            "High Card"} |->
        CASE c = "Straight Flush" -> <<1, 10>>
          [] c = "Four of a Kind" -> <<11, 166>>
          [] c = "Full House" -> <<167, 322>>
          [] c = "Flush" -> <<323, 1599>>
          [] c = "Straight" -> <<1600, 1609>>
          [] c = "Three of a Kind" -> <<1610, 2467>>
          [] c = "Two Pair" -> <<2468, 3325>>
          [] c = "One Pair" -> <<3326, 6185>>
          [] OTHER -> <<6186, 7462>>]

\* The scores held by a table.
ScoresOf(table) == {table[k] : k \in DOMAIN table}

\* C27: the tables give each of the 7462 hand classes a score of its own:
\* every entry written lies in the range of its hand's class, which is the
\* class rank_to_class gives the score; no entry is overwritten; and the
\* finished tables hold the scores 1..7462, each exactly once.
C27_TablesCoverAllScores ==
    /\ entry.table # "none" =>
          LET class == HandCategory(entry.hand, entry.table = "flush") IN
          /\ ClassRange[class][1] <= entry.score
          /\ entry.score <= ClassRange[class][2]
          /\ rank_to_class(entry.score) = class
    /\ section # "idle" =>
          Cardinality(DOMAIN flush_table) + Cardinality(DOMAIN unique5_table)
              + Cardinality(DOMAIN pairs_table) = score - 1
    /\ section = "built" =>
          /\ score = 7463
          /\ ScoresOf(flush_table) \cup ScoresOf(unique5_table)
                 \cup ScoresOf(pairs_table) = 1 .. 7462

\* C27 witness: the straight flushes hold exactly the scores 1..10, the royal
\* flush the score 1, and the first four of a kind (four aces with a king)
\* was written with the score 11.
C27_Witness ==
    /\ section = "four_of_a_kind"
    /\ ScoresOf(flush_table) = 1 .. 10
    /\ flush_table[rank_bits(<<14, 13, 12, 11, 10>>)] = 1
    /\ entry = Entry("pairs", <<14, 14, 14, 14, 13>>,
                     prime_product(<<14, 14, 14, 14, 13>>), 11)
    /\ pairs_table[entry.key] = 11
    /\ rank_to_class(entry.score) = "Four of a Kind"


\* The step applies an action through apply_action, in the driver or on the
\* round alone; last_action' holds the action applied.
ActionApplied == Applied \/ BetApplied

\* The seat index of the player whose action the step applied.
ActedSeat == player_index(players, last_action'.player_id)

\* C31: in no-limit an accepted RAISE with total T sets the seat's street bet
\* to T clamped up to min_raise = current_bet + max(last_raise_size,
\* big_blind) and then down to chips + bet; afterwards current_bet equals
\* that bet and is greater than before, last_raise_size is the increase over
\* the previous current_bet, the raise count is one higher and the acted-set
\* holds exactly the raiser.
C31_NoLimitRaise ==
    [][(/\ ActionApplied
        /\ variant = "no_limit"
        /\ last_action'.action = "raise")
          => LET p == players[ActedSeat]
                 min_raise == betting.current_bet
                                + Max(betting.last_raise_size, big_blind)
                 target == Min(Max(last_action'.amount, min_raise),
                               p.chips + p.bet)
             IN  /\ players'[ActedSeat].bet = target
                 /\ betting'.current_bet = target
                 /\ betting'.current_bet > betting.current_bet
                 /\ betting'.last_raise_size
                      = betting'.current_bet - betting.current_bet
                 /\ betting'.num_raises = betting.num_raises + 1
                 /\ betting'.players_acted = {last_action'.player_id}
      ]_vars

\* C31 witness: the second raise of a street was applied and took current_bet
\* to the largest target a client asks for.
C31_Witness ==
    /\ pc = "betting_round"
    /\ variant = "no_limit"
    /\ last_event = "applied"
    /\ last_action.action = "raise"
    /\ last_action.amount = MaxRaiseTo
    /\ betting.num_raises = 2
    /\ betting.current_bet = MaxRaiseTo
    /\ betting.last_raise_size < MaxRaiseTo - big_blind
    /\ betting.players_acted = {last_action.player_id}


\* C36: no applied betting action takes chips out of the pot: the acting
\* seat's chips do not increase and its bet, its total_bet and the pot do not
\* decrease.
C36_NoActionTakesFromPot ==
    [][ActionApplied
          => /\ players'[ActedSeat].chips <= players[ActedSeat].chips
             /\ players'[ActedSeat].bet >= players[ActedSeat].bet
             /\ players'[ActedSeat].total_bet >= players[ActedSeat].total_bet
             /\ pot' >= pot
      ]_vars


\* C34: in every state a seat that is sitting out is folded and holds no
\* hole cards.
C34_SittingOutIsFoldedWithoutCards ==
    \A i \in DOMAIN players :
        players[i].is_sitting_out
            => (players[i].is_folded /\ players[i].hole_cards = <<>>)


\* The phase changes of one lap of _game_loop, in order.
PhaseOrder ==
    {<<"waiting", "starting">>, <<"starting", "preflop">>,
     <<"preflop", "flop">>, <<"flop", "turn">>, <<"turn", "river">>,
     <<"river", "showdown">>, <<"showdown", "hand_over">>,
     <<"hand_over", "starting">>}

\* C35: the phase moves only along waiting, starting, preflop, flop, turn,
\* river, showdown, hand_over, starting, ...: a street is entered from the
\* street before it, showdown after the river's betting round has completed,
\* and hand_over from showdown or directly from a street, and then from one
\* on which all seats but one folded (seats that joined during the hand are
\* left aside).
C35_PhaseOrder ==
    [][phase' # phase
          => /\ (\/ <<phase, phase'>> \in PhaseOrder
                 \/ (phase \in Streets /\ phase' = "hand_over"))
             /\ (phase' = "showdown" => result = "round_complete")
             /\ ((/\ phase \in Streets
                  /\ phase' = "hand_over"
                  /\ NoSeatJoinedMidHand)
                    => Cardinality(active_players(players)) = 1)
      ]_vars


\* The step is the showdown: the awards and the broadcast of winner.
ShowdownStep == pc = "sleep_street" /\ pc' = "ev_winner_showdown"

\* C37: at every showdown each side pot computed from the ledger has at
\* least one eligible seat still in the hand, so no pot is skipped and the
\* awards add up to the pot.
C37_EveryPotHasEligibleSeat ==
    [][ShowdownStep
          => LET pots == ShowdownPots(players, Ledger, pot) IN
             /\ \A k \in DOMAIN pots : PotEligible(players, pots[k]) # {}
             /\ TotalChips(players') = TotalChips(players) + pot
      ]_vars


\* The step leaves a betting round with ROUND_COMPLETE after an action.
RoundCompleted ==
    /\ pc = "ev_action_taken"
    /\ pc' = "sleep_street"
    /\ result' = "round_complete"

\* The step leaves _run_betting_round with ROUND_COMPLETE before any prompt:
\* the street has no betting.
StreetSkipped ==
    /\ pc \in {"ev_hand_starting", "ev_community"}
    /\ pc' = "sleep_street"
    /\ result' = "round_complete"

\* C39: a street ends with ROUND_COMPLETE only after every seat able to act
\* has acted on it; no street with two or more seats able to act is left
\* without betting; and preflop the big blind, when able to act, has acted
\* before the round completes.
C39_EverySeatActsBeforeRoundCompletes ==
    [][/\ RoundCompleted
            => (\A i \in CanAct(players) :
                   players[i].player_id \in betting.players_acted)
       /\ StreetSkipped
            => Cardinality(CanAct(players')) < 2
       /\ (RoundCompleted /\ phase = "preflop")
            => LET bb == BigBlindSeat(BeforeBlinds(players), dealer_index)
               IN  (bb \in CanAct(players)
                       => players[bb].player_id \in betting.players_acted)
      ]_vars


\* The slot holds an action of the player the driver has prompted.
ActorSubmitted ==
    /\ pc \in {"ev_your_turn", "wait"}
    /\ AcceptPending(pending_action, current_pid)

\* C38: no lost wake-up: an action that the expected actor submits after its
\* your_turn prompt was emitted, also while the driver is still inside the
\* broadcast of the prompt and not yet waiting, is eventually claimed by the
\* driver (applied, or rejected by apply_action) with no further submission,
\* unless another submission replaces it in the slot.
C38_NoLostWakeup ==
    ActorSubmitted
        ~> \/ pc \in {"ev_action_taken", "crashed"}
           \/ (pc \in {"ev_your_turn", "wait"}
                 /\ ~AcceptPending(pending_action, current_pid))


\* C32: whenever the player the driver prompts is a bot, an action of that
\* bot is eventually applied: the hand never stalls on a bot's turn,
\* whatever the clients submit meanwhile.
C32_BotTurnIsPlayed ==
    (pc = "ev_your_turn" /\ current_pid \in bots)
        ~> (pc = "ev_action_taken" /\ last_action.player_id \in bots)


\* The driver is inside a betting round: a seat has been prompted and the
\* round has not returned.
InRound == pc \in {"ev_your_turn", "wait", "ev_action_taken"}

\* C40: every betting round terminates when each prompted seat sends an
\* accepted action in the end, in no-limit and in fixed-limit.
C40_BettingRoundTerminates == InRound ~> ~InRound

\* C40 witness: a round is about to return ROUND_COMPLETE after two raises
\* and a last action that was not a raise.
C40_Witness ==
    /\ pc = "ev_action_taken"
    /\ result = "round_complete"
    /\ betting.num_raises >= 2
    /\ last_action.action \in {"call", "check"}


\* The calls of send_json in progress on the socket of s.
WritesTo(s) == {r \in sending : r.to = s}

\* C33: writes to one subscriber are serialized: at no time are two sends
\* to the same subscriber's socket in progress, whichever of the driver's
\* broadcast, a chat relay, the snapshot on connect and a pong they come
\* from.
C33_WritesAreSerialized ==
    \A s \in Subscribers : Cardinality(WritesTo(s)) <= 1

====
